---- MODULE Spec2Model ----
(***************************************************************************)
(* Manual Authorization Code + PKCE flow of the OIDC test client.          *)
(*                                                                         *)
(* One browser tab is modelled: the home page (src/app/page.tsx), the      *)
(* callback page (src/unnamed/part_001, the /auth/callback route), the     *)
(* tab's sessionStorage, and the external authorization server as the      *)
(* environment (it issues codes and answers the token request with any     *)
(* status and body).                                                       *)
(***************************************************************************)
EXTENDS Naturals, Sequences, FiniteSets, TLC

(***************************************************************************)
(* Bounds of the model.                                                    *)
(***************************************************************************)
MaxFlows == 2        \* startAuthFlow invocations in a behaviour
MaxOverlap == 2      \* startAuthFlow invocations suspended at the same time
MaxLoads == 2        \* loads of the callback page in a behaviour
NumTokenSets == 1    \* distinct token sets the token endpoint may return
MaxFree == 2         \* leading random bytes of an array drawn freely
MaxPlainLen == 3     \* length of the short strings sha256 is called with
MaxTicks == 3        \* half seconds on the clock of the NextAuth route
MaxConcurrent == 2   \* requests of a session in the jwt callback at a time
MaxAttributes == 2   \* attributes after the cookie pair of a Set-Cookie

(***************************************************************************)
(* JavaScript values.  Strings are TLA+ strings; null and undefined are    *)
(* two reserved strings that no program string equals.                     *)
(***************************************************************************)
Null == "<null>"
Undefined == "<undefined>"

\* JavaScript truthiness of a string-or-null-or-undefined value.
Truthy(x) == x \notin {Null, Undefined, ""}

\* a || b
OrElse(a, b) == IF Truthy(a) THEN a ELSE b

\* The string conversion Storage.setItem applies to its value argument.
ToStorageString(x) ==
  IF x = Undefined THEN "undefined" ELSE IF x = Null THEN "null" ELSE x

\* React state `error`: null is the empty sequence, a message is the
\* sequence of the parts it is concatenated from.
NoError == << >>

\* new Error(msg).message
ErrorMessage(msg) == << msg >>

\* a message contains the text `part`
Carries(msg, part) == \E i \in DOMAIN msg : msg[i] = part

(***************************************************************************)
(* Literals of the source.                                                 *)
(***************************************************************************)
\* the literals of the token request (part_001 48-49)
ClientId == "partner-dashboard-local-2"
RedirectUri == "http://localhost:3000/auth/callback"
\* the literals of the authorization request (page.tsx 63-64)
AuthClientId == "partner-dashboard-local-2"
AuthRedirectUri == "http://localhost:3000/auth/callback"
NoRefreshTokenMessage == "No refresh token found."
RevocationFailedMessage == "Token revocation failed"
MissingVerifierMessage ==
  "Code verifier not found. Please start the auth flow from the home page."
GenericExchangeMessage == "Token exchange failed"
CodeMissingMessage == "Authorization code missing"

(***************************************************************************)
(* PKCE values.  A verifier is a fresh random string (the n-th one drawn   *)
(* is "v<n>"); the S256 challenge is a one-way, injective function of it.  *)
(***************************************************************************)
Verifier(n) == "v" \o ToString(n)
sha256(plain) == "S256(" \o plain \o ")"
Code(n) == "c" \o ToString(n)

(***************************************************************************)
(* sessionStorage: the five keys the two pages use.  Null = no entry.      *)
(***************************************************************************)
StorageKeys ==
  {"code_verifier", "access_token", "id_token", "refresh_token", "tokens"}
TokenKeys == {"access_token", "id_token", "refresh_token", "tokens"}

EmptyStorage == [k \in StorageKeys |-> Null]

\* sessionStorage.setItem(key, value)
setItem(s, key, value) == [s EXCEPT ![key] = ToStorageString(value)]

\* sessionStorage.getItem(key)
getItem(s, key) == s[key]

(***************************************************************************)
(* Token endpoint answers (environment).                                   *)
(***************************************************************************)
TokenSetIds == 1 .. NumTokenSets

\* a JSON object body of a 2xx answer: each member present or missing
SuccessObjects ==
  { [kind |-> "object",
     access_token |-> IF a THEN "at" \o ToString(r) ELSE Undefined,
     id_token |-> IF i THEN "id" \o ToString(r) ELSE Undefined,
     refresh_token |-> IF f THEN "rt" \o ToString(r) ELSE Undefined,
     error |-> Undefined,
     error_description |-> Undefined] :
       r \in TokenSetIds, a \in BOOLEAN, i \in BOOLEAN, f \in BOOLEAN }

\* a JSON object body of a non-2xx answer (RFC 6749 section 5.2 shape)
ErrorObjects ==
  { [kind |-> "object",
     access_token |-> Undefined,
     id_token |-> Undefined,
     refresh_token |-> Undefined,
     error |-> e,
     error_description |-> d] :
       e \in {Undefined, "invalid_grant"},
       d \in {Undefined, "", "PKCE verification failed"} }

NotJson == [kind |-> "text"]
JsonNull == [kind |-> "null"]

TransportFailure == [transport |-> FALSE]

Responses ==
  {TransportFailure}
    \cup { [transport |-> TRUE, ok |-> TRUE, body |-> b] :
             b \in SuccessObjects \cup {NotJson, JsonNull} }
    \cup { [transport |-> TRUE, ok |-> FALSE, body |-> b] :
             b \in ErrorObjects \cup {NotJson, JsonNull} }

NoResponse == [transport |-> FALSE, none |-> TRUE]

\* the answer carries a JSON object with a 2xx status
IsGrant(response) ==
  response.transport /\ response.ok /\ response.body.kind = "object"

\* JSON.stringify of a parsed object: the members that are present
JSONstringify(obj) ==
  "{" \o (IF obj.access_token # Undefined THEN "a:" \o obj.access_token ELSE "")
      \o (IF obj.id_token # Undefined THEN ",i:" \o obj.id_token ELSE "")
      \o (IF obj.refresh_token # Undefined THEN ",r:" \o obj.refresh_token ELSE "")
      \o "}"

\* JSON.parse of a stored 'tokens' text: the object it was written from
JSONparse(text) == CHOOSE obj \in SuccessObjects : JSONstringify(obj) = text

(***************************************************************************)
(* State.                                                                  *)
(***************************************************************************)
\* no call of generateRandomString, of sha256, no NextAuth route running
GenIdle == [pc |-> "idle"]
EncIdle == [pc |-> "idle"]
NaIdle == [pc |-> "idle"]
CjIdle == [pc |-> "idle"]
PxIdle == [pc |-> "idle"]

VARIABLES
  page,          \* document shown in the tab
  storage,       \* sessionStorage of the tab
  home,          \* React state of Home
  pending,       \* verifiers of startAuthFlow invocations awaiting sha256
  href,          \* navigation requested through window.location.href
  authReq,       \* authorization request the browser followed last
  issued,        \* authorization server: code -> challenge it is bound to
  nextVerifier,  \* number of the next random verifier
  cb,            \* AuthCallbackPage: URL parameters, React state, position
  loads,         \* loads of the callback page so far
  requests,      \* POSTs to /oidc/token sent so far, with their outcome
  gen,           \* a call of generateRandomString (page.tsx 6-16)
  enc,           \* a call of sha256 (page.tsx 18-26)
  na,            \* the NextAuth route: JWT, clock, callbacks (route.ts)
  cj,            \* the NextAuth route serving requests at the same time
  px             \* a GET of the proxy-auth route

\* the variables of the browser flow
flowVars == << page, storage, home, pending, href, authReq, issued,
               nextVerifier, cb, loads, requests >>

\* the variables of the functions and of the route examined on their own
sideVars == << gen, enc, na, cj, px >>

vars == << flowVars, sideVars >>

NoNav == [kind |-> "none"]

\* useState initial values of Home (page.tsx 29-34); `op` is the fetch a
\* handler of the page is suspended at
HomeInitial ==
  [loading |-> FALSE, error |-> NoError, tokens |-> JsonNull,
   effectRun |-> FALSE, op |-> "none"]

\* no callback page in the document (load 0); `soft` marks a mount made by
\* a navigation inside the document, which leaves a forward history entry
NoCallback ==
  [load |-> 0, origin |-> "none", code |-> Null, state |-> Null,
   errorParam |-> Null,
   errorDescription |-> Null, pc |-> "unmounted", error |-> NoError,
   exchanging |-> FALSE, verifierRead |-> FALSE, response |-> NoResponse,
   before |-> EmptyStorage, timer |-> FALSE, soft |-> FALSE]

\* useState initial values of AuthCallbackPage (part_001 10-11) for one load
\* of /auth/callback with the given query parameters
CallbackInitial(n, origin, code, state, errorParam, errorDescription) ==
  [load |-> n, origin |-> origin, code |-> code, state |-> state,
   errorParam |-> errorParam,
   errorDescription |-> errorDescription, pc |-> "mounted",
   error |-> NoError, exchanging |-> FALSE, verifierRead |-> FALSE,
   response |-> NoResponse, before |-> EmptyStorage, timer |-> FALSE,
   soft |-> FALSE]

\* The tab opens on the home page.  sessionStorage has no entry, or an
\* empty code_verifier left by an earlier same-origin document of the tab.
FlowInit ==
  /\ page = "home"
  /\ storage \in { EmptyStorage, [EmptyStorage EXCEPT !["code_verifier"] = ""] }
  /\ home = HomeInitial
  /\ pending = {}
  /\ href = NoNav
  /\ authReq = NoNav
  /\ issued = << >>
  /\ nextVerifier = 1
  /\ cb = NoCallback
  /\ loads = 0
  /\ requests = << >>

\* nothing is being evaluated on its own
SideIdle ==
  /\ gen = GenIdle
  /\ enc = EncIdle
  /\ na = NaIdle
  /\ cj = CjIdle
  /\ px = PxIdle

Init == FlowInit /\ SideIdle

(***************************************************************************)
(* Home page (src/app/page.tsx).                                           *)
(***************************************************************************)

\* useEffect of Home: load tokens from sessionStorage on mount (36-46)
HomeEffect ==
  /\ page = "home"
  /\ ~home.effectRun
  /\ LET storedTokens == getItem(storage, "tokens") IN
       home' = [home EXCEPT
                  !.effectRun = TRUE,
                  !.tokens = IF Truthy(storedTokens)
                             THEN JSONparse(storedTokens) ELSE @]
  /\ UNCHANGED << page, storage, pending, href, authReq, issued,
                  nextVerifier, cb, loads, requests >>
  /\ UNCHANGED sideVars

\* startAuthFlow up to `await sha256(codeVerifier)` (49-56); the header's
\* Login button is rendered while tokens is null (322-341), the card's
\* button is disabled while loading (353-359)
startAuthFlow ==
  /\ page = "home"
  /\ home.tokens = JsonNull \/ ~home.loading
  /\ nextVerifier <= MaxFlows
  /\ Cardinality(pending) < MaxOverlap
  /\ home' = [home EXCEPT !.loading = TRUE, !.error = NoError]
  /\ pending' = pending \cup {Verifier(nextVerifier)}
  /\ nextVerifier' = nextVerifier + 1
  /\ UNCHANGED << page, storage, href, authReq, issued, cb, loads, requests >>
  /\ UNCHANGED sideVars

\* the state parameter of an invocation: generateRandomString(16) (69), a
\* fresh random string for each invocation, named after the invocation's
\* verifier
StateOf(codeVerifier) == "s-" \o codeVerifier

\* the authorization URL built at 62-72
AuthUrl(codeChallenge, state) ==
  [kind |-> "auth", client_id |-> AuthClientId,
   redirect_uri |-> AuthRedirectUri,
   code_challenge |-> codeChallenge, code_challenge_method |-> "S256",
   state |-> state]

\* Variant of startAuthFlowResume: the verifier is stored only when the
\* storage holds none yet.
startAuthFlowResume_KeepStored(codeVerifier) ==
  /\ page = "home"
  /\ codeVerifier \in pending
  /\ pending' = pending \ {codeVerifier}
  /\ storage' = IF Truthy(getItem(storage, "code_verifier"))
                THEN storage
                ELSE setItem(storage, "code_verifier", codeVerifier)
  /\ href' = AuthUrl(sha256(codeVerifier), StateOf(codeVerifier))
  /\ UNCHANGED << page, home, authReq, issued, nextVerifier, cb, loads,
                  requests >>
  /\ UNCHANGED sideVars

\* startAuthFlow after the await: store the verifier, request the
\* navigation (58-72)
startAuthFlowResume(codeVerifier) ==
  /\ page = "home"
  /\ codeVerifier \in pending
  /\ pending' = pending \ {codeVerifier}
  /\ storage' = setItem(storage, "code_verifier", codeVerifier)
  /\ href' = AuthUrl(sha256(codeVerifier), StateOf(codeVerifier))
  /\ UNCHANGED << page, home, authReq, issued, nextVerifier, cb, loads,
                  requests >>
  /\ UNCHANGED sideVars

\* Variant of startAuthFlowCatch: the verifier was stored before the
\* await.
startAuthFlowCatch_Stored(codeVerifier) ==
  /\ page = "home"
  /\ codeVerifier \in pending
  /\ pending' = pending \ {codeVerifier}
  /\ storage' = setItem(storage, "code_verifier", codeVerifier)
  /\ home' = [home EXCEPT !.error = ErrorMessage("digest failed"),
                          !.loading = FALSE]
  /\ UNCHANGED << page, href, authReq, issued, nextVerifier, cb, loads,
                  requests >>
  /\ UNCHANGED sideVars

\* startAuthFlow when sha256 rejects: the catch block (73-76)
startAuthFlowCatch(codeVerifier) ==
  /\ page = "home"
  /\ codeVerifier \in pending
  /\ pending' = pending \ {codeVerifier}
  /\ home' = [home EXCEPT !.error = ErrorMessage("digest failed"),
                          !.loading = FALSE]
  /\ UNCHANGED << page, storage, href, authReq, issued, nextVerifier, cb,
                  loads, requests >>
  /\ UNCHANGED sideVars

\* startAuthFlow when generateRandomString throws (no crypto in the
\* context): the catch block (73-76), no await reached; the message of
\* the thrown error is the environment's, taken as in startAuthFlowCatch
startAuthFlowThrow ==
  /\ page = "home"
  /\ home.tokens = JsonNull \/ ~home.loading
  /\ home' = [home EXCEPT !.error = ErrorMessage("digest failed"),
                          !.loading = FALSE]
  /\ UNCHANGED << page, storage, pending, href, authReq, issued,
                  nextVerifier, cb, loads, requests >>
  /\ UNCHANGED sideVars

\* revokeToken up to `await fetch` (238-261); its button is disabled
\* while loading
revokeToken ==
  /\ page = "home"
  /\ ~home.loading
  /\ home.op = "none"
  /\ IF ~Truthy(getItem(storage, "refresh_token"))
     THEN \* throw (245-247), catch (275-276), finally (277-279)
          home' = [home EXCEPT !.error = ErrorMessage(NoRefreshTokenMessage),
                               !.loading = FALSE]
     ELSE home' = [home EXCEPT !.error = NoError, !.loading = TRUE,
                               !.op = "revoke"]
  /\ UNCHANGED << page, storage, pending, href, authReq, issued,
                  nextVerifier, cb, loads, requests >>
  /\ UNCHANGED sideVars

\* answers of the revocation endpoint: fetch rejects, non-2xx, 2xx
RevocationAnswers == {"transport", "rejected", "ok"}

\* revokeToken from the resumption after `await fetch` to its end
\* (263-279), the revocation endpoint having given the answer
revokeTokenAnswered(answer) ==
  /\ page = "home"
  /\ home.op = "revoke"
  /\ IF answer = "ok"
     THEN /\ storage' = EmptyStorage
          /\ home' = [home EXCEPT !.tokens = JsonNull, !.loading = FALSE,
                                  !.op = "none"]
     ELSE /\ storage' = storage
          /\ home' = [home EXCEPT
                        !.error = IF answer = "rejected"
                                  THEN ErrorMessage(RevocationFailedMessage)
                                  ELSE ErrorMessage("Failed to fetch"),
                        !.loading = FALSE, !.op = "none"]
  /\ UNCHANGED << page, pending, href, authReq, issued, nextVerifier, cb,
                  loads, requests >>
  /\ UNCHANGED sideVars

\* Variant of revokeTokenResponse: a 2xx answer resets the React state
\* only.
revokeTokenResponse_StateOnly ==
  /\ page = "home"
  /\ home.op = "revoke"
  /\ \E answer \in RevocationAnswers :
       home' = [home EXCEPT
                  !.tokens = IF answer = "ok" THEN JsonNull ELSE @,
                  !.error = IF answer = "ok" THEN @
                            ELSE ErrorMessage(RevocationFailedMessage),
                  !.loading = FALSE, !.op = "none"]
  /\ UNCHANGED << page, storage, pending, href, authReq, issued,
                  nextVerifier, cb, loads, requests >>
  /\ UNCHANGED sideVars

\* the revocation endpoint answers the request of revokeToken
revokeTokenResponse ==
  \E answer \in RevocationAnswers : revokeTokenAnswered(answer)

\* the end-session URL built by logout (292-304)
LogoutUrl(idToken) ==
  [kind |-> "logout",
   id_token_hint |-> IF Truthy(idToken) THEN idToken ELSE Undefined]

\* logout (283-307); its buttons are rendered or enabled only with tokens
logout ==
  /\ page = "home"
  /\ home.tokens # JsonNull
  /\ storage' = EmptyStorage
  /\ home' = [home EXCEPT !.tokens = JsonNull]
  /\ href' = LogoutUrl(home.tokens.id_token)
  /\ UNCHANGED << page, pending, authReq, issued, nextVerifier, cb, loads,
                  requests >>
  /\ UNCHANGED sideVars

\* The browser follows the navigation requested last: the document of the
\* home page, with its suspended invocations, is gone.
FollowNavigation ==
  /\ page = "home"
  /\ href # NoNav
  /\ page' = IF href.kind = "auth" THEN "authorizer" ELSE "endsession"
  /\ authReq' = IF href.kind = "auth" THEN href ELSE authReq
  /\ href' = NoNav
  /\ pending' = {}
  /\ home' = HomeInitial
  /\ cb' = NoCallback
  /\ UNCHANGED << storage, issued, nextVerifier, loads, requests >>
  /\ UNCHANGED sideVars

\* The provider's end-session endpoint redirects to
\* post_logout_redirect_uri: a fresh load of the home page.
PostLogoutRedirect ==
  /\ page = "endsession"
  /\ page' = "home"
  /\ home' = HomeInitial
  /\ UNCHANGED << storage, pending, href, authReq, issued, nextVerifier, cb,
                  loads, requests >>
  /\ UNCHANGED sideVars

(***************************************************************************)
(* Arrivals on the callback page /auth/callback.                           *)
(***************************************************************************)

\* Leaving whatever document is shown for a load of /auth/callback.
LoadCallback(origin, code, state, errorParam, errorDescription) ==
  /\ loads < MaxLoads
  /\ loads' = loads + 1
  /\ page' = "callback"
  /\ cb' = CallbackInitial(loads + 1, origin, code, state, errorParam,
                           errorDescription)
  /\ home' = HomeInitial
  /\ pending' = {}
  /\ href' = NoNav

\* The authorization server ends the interaction by redirecting to
\* redirect_uri with a fresh single-use code bound to the request's
\* code_challenge ...
AuthorizerRedirectCode ==
  /\ page = "authorizer"
  /\ issued' = Append(issued, authReq.code_challenge)
  /\ LoadCallback("redirect", Code(Len(issued) + 1), authReq.state, Null,
                  Null)
  /\ UNCHANGED << storage, authReq, nextVerifier, requests >>
  /\ UNCHANGED sideVars

\* ... or with an error (RFC 6749 section 4.1.2.1).
AuthorizerRedirectError ==
  /\ page = "authorizer"
  /\ \E d \in {Null, "denied by user"} :
       LoadCallback("redirect", Null, authReq.state, "access_denied", d)
  /\ UNCHANGED << storage, authReq, issued, nextVerifier, requests >>
  /\ UNCHANGED sideVars

\* query parameter values a hand-made or replayed callback URL can carry:
\* absent (get() returns null), empty, or a value; the state parameter,
\* which the page never reads, is absent
UrlCodes == {Null, ""} \cup { Code(i) : i \in 1 .. Len(issued) }
UrlErrors == {Null, "", "access_denied"}
UrlDescriptions == {Null, "denied by user"}
UrlStates == {Null}

\* The user opens a callback URL directly (typed, bookmarked, a link).
VisitCallback ==
  /\ \E code \in UrlCodes, state \in UrlStates, e \in UrlErrors,
        d \in UrlDescriptions :
       LoadCallback("direct", code, state, e, d)
  /\ UNCHANGED << storage, authReq, issued, nextVerifier, requests >>
  /\ UNCHANGED sideVars

\* The user reloads the callback page: same URL, new document.
ReloadCallback ==
  /\ page = "callback"
  /\ LoadCallback(cb.origin, cb.code, cb.state, cb.errorParam,
                  cb.errorDescription)
  /\ UNCHANGED << storage, authReq, issued, nextVerifier, requests >>
  /\ UNCHANGED sideVars

(***************************************************************************)
(* Callback page (src/unnamed/part_001).                                   *)
(***************************************************************************)

\* Variant of TokenRequest: the redirect URI is sent without its path.
TokenRequest_OriginOnly(code, codeVerifier) ==
  [grant_type |-> "authorization_code", code |-> code,
   redirect_uri |-> "http://localhost:3000", client_id |-> ClientId,
   code_verifier |-> codeVerifier]

\* the form body of the token request (45-51)
TokenRequest(code, codeVerifier) ==
  [grant_type |-> "authorization_code", code |-> code,
   redirect_uri |-> RedirectUri, client_id |-> ClientId,
   code_verifier |-> codeVerifier]

\* Variant of exchangeCodeForTokensStart: no test of the verifier read.
exchangeCodeForTokensStart_NoCheck(c, s) ==
  [c EXCEPT !.verifierRead = TRUE, !.before = s,
            !.exchanging = TRUE, !.pc = "fetching"]

\* exchangeCodeForTokens up to `await fetch` (35-57): the state of the
\* page after the synchronous part, and whether a request was sent
exchangeCodeForTokensStart(c, s) ==
  LET codeVerifier == getItem(s, "code_verifier") IN
    IF ~Truthy(codeVerifier)
    THEN \* throw (39-43), catch (80-82), finally (83-85)
         [c EXCEPT !.verifierRead = TRUE, !.before = s,
                   !.error = ErrorMessage(MissingVerifierMessage),
                   !.exchanging = FALSE, !.pc = "done"]
    ELSE [c EXCEPT !.verifierRead = TRUE, !.before = s,
                   !.exchanging = TRUE, !.pc = "fetching"]

\* Variant of EffectPending: the effect also depends on `error`, so it
\* runs again after a failed exchange set it.
EffectPending_RerunOnError(c) ==
  c.pc = "mounted" \/ (c.pc = "done" /\ c.error # NoError)

\* The effect runs once after the mount: its dependency [searchParams] (32)
\* does not change while the URL stays the same.
EffectPending(c) == c.pc = "mounted"

\* Variant of EffectBranch: the code is looked at before the error.
EffectBranch_CodeFirst(c) ==
  IF Truthy(c.code) THEN "exchange"
  ELSE IF Truthy(c.errorParam) THEN "error"
  ELSE "missing"

\* The branch the effect takes (19-31)
EffectBranch(c) ==
  IF Truthy(c.errorParam) THEN "error"
  ELSE IF ~Truthy(c.code) THEN "missing"
  ELSE "exchange"

\* useEffect of AuthCallbackPage (13-32), with the synchronous part of the
\* exchangeCodeForTokens call it makes
CallbackEffect ==
  /\ page = "callback"
  /\ EffectPending(cb)
  /\ IF EffectBranch(cb) = "error"
     THEN /\ cb' = [cb EXCEPT
                      !.error = << cb.errorParam, ": ",
                                   OrElse(cb.errorDescription,
                                          "Unknown error") >>,
                      !.pc = "rejected"]
          /\ UNCHANGED requests
     ELSE IF EffectBranch(cb) = "missing"
     THEN /\ cb' = [cb EXCEPT !.error = ErrorMessage(CodeMissingMessage),
                              !.pc = "rejected"]
          /\ UNCHANGED requests
     ELSE /\ cb' = exchangeCodeForTokensStart(cb, storage)
          /\ requests' =
               IF cb'.pc = "fetching"
               THEN Append(requests,
                           [load |-> cb.load, origin |-> cb.origin,
                            outcome |-> "pending",
                            form |-> TokenRequest(cb.code,
                                       getItem(storage, "code_verifier"))])
               ELSE requests
  /\ UNCHANGED << page, storage, home, pending, href, authReq, issued,
                  nextVerifier, loads >>
  /\ UNCHANGED sideVars

\* The error thrown between `await fetch` and the first setItem (53-67),
\* NoError when nothing is thrown.
ExchangeError(response) ==
  IF ~response.transport
  THEN ErrorMessage("Failed to fetch")                  \* fetch rejects
  ELSE IF response.body = NotJson
  THEN ErrorMessage("Unexpected token in JSON")         \* json() rejects
  ELSE IF response.body = JsonNull
  THEN ErrorMessage("Cannot read properties of null")   \* member of null
  ELSE IF ~response.ok
  THEN ErrorMessage(OrElse(response.body.error_description,
                           GenericExchangeMessage))     \* 59-62
  ELSE NoError

\* Store tokens (66-74)
StoreTokens(s, tokenData) ==
  LET s1 == setItem(s, "access_token", tokenData.access_token)
      s2 == setItem(s1, "id_token", tokenData.id_token)
      s3 == IF Truthy(tokenData.refresh_token)
            THEN setItem(s2, "refresh_token", tokenData.refresh_token)
            ELSE s2
  IN setItem(s3, "tokens", JSONstringify(tokenData))

\* the challenge the authorization server bound the code to
ChallengeOf(code) ==
  issued[CHOOSE i \in DOMAIN issued : Code(i) = code]

\* The token endpoint grants tokens only for a code it issued, not yet
\* redeemed, presented with the verifier of the code's challenge; it may
\* answer anything else to any request.
Redeemable(form) ==
  /\ \E i \in DOMAIN issued : Code(i) = form.code
  /\ sha256(form.code_verifier) = ChallengeOf(form.code)
  /\ \A i \in DOMAIN requests :
       requests[i].form.code = form.code => requests[i].outcome # "ok"

\* exchangeCodeForTokens from the resumption after `await fetch` to its
\* end (53-85).  No handler of the page runs between its awaits.  The
\* function has no cancellation: it resumes as long as the document that
\* called it is loaded, also after the component was unmounted by a
\* navigation inside the document (the state setters then do nothing).
TokenResponse ==
  /\ page \in {"callback", "home"}
  /\ cb.pc = "fetching"
  /\ \E response \in Responses :
       LET err == ExchangeError(response) IN
         /\ IsGrant(response) => Redeemable(requests[Len(requests)].form)
         /\ storage' = IF err = NoError
                       THEN StoreTokens(storage, response.body)
                       ELSE storage
         /\ cb' = [cb EXCEPT
                     !.response = response,
                     !.timer = (err = NoError),
                     !.error = IF err = NoError THEN @ ELSE err,
                     !.exchanging = FALSE,
                     !.pc = "done"]
         /\ requests' =
              [requests EXCEPT ![Len(requests)].outcome =
                 IF err = NoError THEN "ok" ELSE "failed"]
  /\ UNCHANGED << page, home, pending, href, authReq, issued, nextVerifier,
                  loads >>
  /\ UNCHANGED sideVars

\* what the callback page renders (88-153): the error view when error is
\* set, else the spinner while exchanging, else 'Authentication Successful!'
CallbackView(c) ==
  IF c.error # NoError THEN "error"
  ELSE IF c.exchanging THEN "exchanging"
  ELSE "success"

\* the callback URL as an entry of the document's session history: the
\* component is unmounted, a later mount starts from the initial state
HistoryEntry(c) ==
  [CallbackInitial(c.load, c.origin, c.code, c.state, c.errorParam,
                   c.errorDescription) EXCEPT !.pc = "unmounted"]

\* router.push("/"): the home page is mounted in the same document, the
\* callback URL stays behind it in the session history
PushHome ==
  /\ page' = "home"
  /\ home' = HomeInitial
  /\ cb' = HistoryEntry(cb)
  /\ UNCHANGED << storage, pending, href, authReq, issued, nextVerifier,
                  loads, requests >>

\* the setTimeout callback of a successful exchange (77-79)
RedirectTimer ==
  /\ page = "callback"
  /\ cb.timer
  /\ PushHome
  /\ UNCHANGED sideVars

\* the 'Back to Home' button of the error view (112-117)
BackToHome ==
  /\ page = "callback"
  /\ cb.error # NoError
  /\ PushHome
  /\ UNCHANGED sideVars

\* Browser Back on the home page reached by router.push: the router mounts
\* the callback page again, in the same document, with the same URL.
HistoryBack ==
  /\ page = "home"
  /\ cb.pc = "unmounted"
  /\ cb.load > 0
  /\ pending = {}
  /\ href = NoNav
  /\ home.op = "none"
  /\ loads < MaxLoads
  /\ loads' = loads + 1
  /\ page' = "callback"
  /\ cb' = [CallbackInitial(loads + 1, cb.origin, cb.code, cb.state,
                            cb.errorParam, cb.errorDescription)
              EXCEPT !.soft = TRUE]
  /\ home' = HomeInitial
  /\ UNCHANGED << storage, pending, href, authReq, issued, nextVerifier,
                  requests >>
  /\ UNCHANGED sideVars

\* Browser Forward on a callback page mounted by HistoryBack: the router
\* shows the home page again and unmounts the callback component.  A
\* pending exchangeCodeForTokens call and a pending timer outlive it.
HistoryForward ==
  /\ page = "callback"
  /\ cb.soft
  /\ page' = "home"
  /\ home' = HomeInitial
  /\ cb' = IF cb.pc = "fetching" \/ cb.timer THEN cb ELSE HistoryEntry(cb)
  /\ UNCHANGED << storage, pending, href, authReq, issued, nextVerifier,
                  loads, requests >>
  /\ UNCHANGED sideVars

\* the setTimeout callback (77-79) of a component unmounted meanwhile:
\* router.push("/") on the home page shows the home page as it is
RedirectTimerUnmounted ==
  /\ page = "home"
  /\ cb.timer
  /\ cb' = [cb EXCEPT !.timer = FALSE]
  /\ UNCHANGED << page, storage, home, pending, href, authReq, issued,
                  nextVerifier, loads, requests >>
  /\ UNCHANGED sideVars

Next ==
  \/ HomeEffect
  \/ startAuthFlow
  \/ \E v \in pending : startAuthFlowResume(v)
  \/ \E v \in pending : startAuthFlowCatch(v)
  \/ startAuthFlowThrow
  \/ revokeToken
  \/ revokeTokenResponse
  \/ logout
  \/ FollowNavigation
  \/ PostLogoutRedirect
  \/ AuthorizerRedirectCode
  \/ AuthorizerRedirectError
  \/ VisitCallback
  \/ ReloadCallback
  \/ CallbackEffect
  \/ TokenResponse
  \/ RedirectTimer
  \/ BackToHome
  \/ HistoryBack
  \/ HistoryForward
  \/ RedirectTimerUnmounted

Spec == Init /\ [][Next]_vars


(***************************************************************************)
(* generateRandomString on its own (page.tsx 6-16).  A JavaScript string   *)
(* is the sequence of its characters.                                      *)
(***************************************************************************)

\* the charset literal (7-8)
Charset ==
  << "A", "B", "C", "D", "E", "F", "G", "H", "I", "J", "K", "L", "M",
     "N", "O", "P", "Q", "R", "S", "T", "U", "V", "W", "X", "Y", "Z",
     "a", "b", "c", "d", "e", "f", "g", "h", "i", "j", "k", "l", "m",
     "n", "o", "p", "q", "r", "s", "t", "u", "v", "w", "x", "y", "z",
     "0", "1", "2", "3", "4", "5", "6", "7", "8", "9", "-", ".", "_",
     "~" >>

\* the lengths startAuthFlow asks for: the verifier (55), the state (69)
VerifierLength == 128
StateLength == 16

\* the lengths generateRandomString is called with
GenLengths == {0, 1, StateLength, VerifierLength}

\* values of a random byte: the ends of 0..255 and of the runs of the
\* modulus
ByteSamples == {0, 65, 66, 131, 197, 198, 255}

\* the byte at the positions that are not drawn freely
ByteFill(i) == (i * 37 + 11) % 256

\* what crypto.getRandomValues may leave in a Uint8Array(length) (10-11)
RandomArrays(length) ==
  { [i \in 1..length |-> IF i <= MaxFree THEN p[i] ELSE ByteFill(i)] :
      p \in [1..MaxFree -> ByteSamples] }

\* str[index] appended to a string: the character, or "undefined" when
\* index is past the end
CharAt(str, index) ==
  IF index < Len(str)
  THEN << str[index + 1] >>
  ELSE << "u", "n", "d", "e", "f", "i", "n", "e", "d" >>

\* Variant of CharsetIndex: the byte itself is the index.
CharsetIndex_NoModulus(v) == v

\* v % charset.length (13)
CharsetIndex(v) == v % Len(Charset)

\* the call up to the loop (6-11)
generateRandomStringCall ==
  /\ gen.pc = "idle"
  /\ \E length \in GenLengths :
       \E randomValues \in RandomArrays(length) :
         gen' = [pc |-> "loop", length |-> length,
                 randomValues |-> randomValues, i |-> 1, result |-> << >>]
  /\ UNCHANGED << flowVars, enc, na, cj, px >>

\* one turn of randomValues.forEach (12-14)
generateRandomStringEach ==
  /\ gen.pc = "loop"
  /\ gen.i <= Len(gen.randomValues)
  /\ gen' = [gen EXCEPT
               !.result = @ \o CharAt(Charset,
                                      CharsetIndex(gen.randomValues[gen.i])),
               !.i = @ + 1]
  /\ UNCHANGED << flowVars, enc, na, cj, px >>

\* return result (15)
generateRandomStringReturn ==
  /\ gen.pc = "loop"
  /\ gen.i > Len(gen.randomValues)
  /\ gen' = [gen EXCEPT !.pc = "returned"]
  /\ UNCHANGED << flowVars, enc, na, cj, px >>

GenNext ==
  \/ generateRandomStringCall
  \/ generateRandomStringEach
  \/ generateRandomStringReturn

GenSpec == Init /\ [][GenNext]_vars

(***************************************************************************)
(* sha256 on its own (page.tsx 18-26).  A word of 32 bits is the pair of   *)
(* its two halves of 16 bits; a byte array is a sequence of 0..255.        *)
(***************************************************************************)

\* the UTF-8 code of a character of the verifier's charset (one byte each)
CodeOf(c) ==
  LET index == CHOOSE i \in 1..Len(Charset) : Charset[i] = c IN
    IF index <= 26 THEN 64 + index
    ELSE IF index <= 52 THEN 96 + (index - 26)
    ELSE IF index <= 62 THEN 47 + (index - 52)
    ELSE << 45, 46, 95, 126 >>[index - 62]

\* encoder.encode(plain) (19-20)
TextEncode(plain) == [i \in 1..Len(plain) |-> CodeOf(plain[i])]

RECURSIVE XorBits(_, _, _)
\* bitwise exclusive or of two numbers of k bits
XorBits(a, b, k) ==
  IF k = 0 THEN 0
  ELSE ((a + b) % 2) + 2 * XorBits(a \div 2, b \div 2, k - 1)

RECURSIVE ChBits(_, _, _, _)
\* bitwise choice: the bit of f where e has 1, the bit of g elsewhere
ChBits(e, f, g, k) ==
  IF k = 0 THEN 0
  ELSE (IF e % 2 = 1 THEN f % 2 ELSE g % 2)
         + 2 * ChBits(e \div 2, f \div 2, g \div 2, k - 1)

RECURSIVE MajBits(_, _, _, _)
\* bitwise majority of three numbers of k bits
MajBits(a, b, c, k) ==
  IF k = 0 THEN 0
  ELSE (((a % 2) + (b % 2) + (c % 2)) \div 2)
         + 2 * MajBits(a \div 2, b \div 2, c \div 2, k - 1)

WordXor(x, y) == << XorBits(x[1], y[1], 16), XorBits(x[2], y[2], 16) >>

WordXor3(x, y, z) == WordXor(WordXor(x, y), z)

WordCh(e, f, g) ==
  << ChBits(e[1], f[1], g[1], 16), ChBits(e[2], f[2], g[2], 16) >>

WordMaj(a, b, c) ==
  << MajBits(a[1], b[1], c[1], 16), MajBits(a[2], b[2], c[2], 16) >>

\* addition modulo 2^32
WordAdd(x, y) ==
  LET lo == x[2] + y[2]
      hi == x[1] + y[1] + (lo \div 65536)
  IN  << hi % 65536, lo % 65536 >>

\* rotation to the right by n bits, 0 < n < 32
WordRotr(x, n) ==
  LET y == IF n >= 16 THEN << x[2], x[1] >> ELSE x
      m == n % 16
  IN  IF m = 0 THEN y
      ELSE << (y[1] \div 2^m) + (y[2] % 2^m) * 2^(16 - m),
              (y[2] \div 2^m) + (y[1] % 2^m) * 2^(16 - m) >>

\* shift to the right by n bits, 0 < n < 16
WordShr(x, n) ==
  << x[1] \div 2^n, (x[2] \div 2^n) + (x[1] % 2^n) * 2^(16 - n) >>

\* the functions of FIPS 180-4 section 4.1.2
BigSigma0(x) == WordXor3(WordRotr(x, 2), WordRotr(x, 13), WordRotr(x, 22))

BigSigma1(x) == WordXor3(WordRotr(x, 6), WordRotr(x, 11), WordRotr(x, 25))

SmallSigma0(x) == WordXor3(WordRotr(x, 7), WordRotr(x, 18), WordShr(x, 3))

SmallSigma1(x) == WordXor3(WordRotr(x, 17), WordRotr(x, 19), WordShr(x, 10))

\* the round constants (FIPS 180-4 section 4.2.2)
Sha256K ==
  << <<17034, 12184>>, <<28983, 17553>>, <<46528, 64463>>, <<59829, 56229>>,
     <<14678, 49755>>, <<23025, 4593>>, <<37439, 33444>>, <<43804, 24277>>,
     <<55303, 43672>>, <<4739, 23297>>, <<9265, 34238>>, <<21772, 32195>>,
     <<29374, 23924>>, <<32990, 45566>>, <<39900, 1703>>, <<49563, 61812>>,
     <<58523, 27073>>, <<61374, 18310>>, <<4033, 40390>>, <<9228, 41420>>,
     <<11753, 11375>>, <<19060, 33962>>, <<23728, 43484>>, <<30457, 35034>>,
     <<38974, 20818>>, <<43057, 50797>>, <<45059, 10184>>, <<48985, 32711>>,
     <<50912, 3059>>, <<54695, 37191>>, <<1738, 25425>>, <<5161, 10599>>,
     <<10167, 2693>>, <<11803, 8504>>, <<19756, 28156>>, <<21304, 3347>>,
     <<25866, 29524>>, <<30314, 2747>>, <<33218, 51502>>, <<37490, 11397>>,
     <<41663, 59553>>, <<43034, 26187>>, <<49739, 35696>>, <<51052, 20899>>,
     <<53650, 59417>>, <<54937, 1572>>, <<62478, 13701>>, <<4202, 41072>>,
     <<6564, 49430>>, <<7735, 27656>>, <<10056, 30540>>, <<13488, 48309>>,
     <<14620, 3251>>, <<20184, 43594>>, <<23452, 51791>>, <<26670, 28659>>,
     <<29839, 33518>>, <<30885, 25455>>, <<33992, 30740>>, <<36039, 520>>,
     <<37054, 65530>>, <<42064, 27883>>, <<48889, 41975>>, <<50801, 30962>> >>

\* the initial hash value (FIPS 180-4 section 5.3.3)
Sha256H0 ==
  << <<27145, 58983>>, <<47975, 44677>>, <<15470, 62322>>, <<42319, 62778>>,
     <<20750, 21119>>, <<39685, 26764>>, <<8067, 55723>>, <<23520, 52505>> >>

\* the message with its padding (FIPS 180-4 section 5.1.1)
Sha256Pad(bytes) ==
  LET n == Len(bytes)
      zeros == (64 - ((n + 9) % 64)) % 64
      bits == 8 * n
  IN  bytes \o << 128 >> \o [i \in 1..zeros |-> 0]
        \o << 0, 0, 0, 0, bits \div 16777216, (bits \div 65536) % 256,
              (bits \div 256) % 256, bits % 256 >>

\* the sixteen words of the block that starts after `offset` bytes
Sha256Block(padded, offset) ==
  [j \in 1..16 |->
     << padded[offset + 4 * j - 3] * 256 + padded[offset + 4 * j - 2],
        padded[offset + 4 * j - 1] * 256 + padded[offset + 4 * j] >>]

RECURSIVE Sha256Schedule(_)
\* the message schedule, extended to 64 words (section 6.2.2 step 1)
Sha256Schedule(w) ==
  IF Len(w) = 64 THEN w
  ELSE LET t == Len(w) + 1 IN
         Sha256Schedule(
           Append(w, WordAdd(WordAdd(SmallSigma1(w[t - 2]), w[t - 7]),
                             WordAdd(SmallSigma0(w[t - 15]), w[t - 16]))))

\* one round on the working variables a..h (section 6.2.2 step 3)
Sha256Round(s, w, k) ==
  LET t1 == WordAdd(WordAdd(WordAdd(s[8], BigSigma1(s[5])),
                            WordAdd(WordCh(s[5], s[6], s[7]), k)), w)
      t2 == WordAdd(BigSigma0(s[1]), WordMaj(s[1], s[2], s[3]))
  IN  << WordAdd(t1, t2), s[1], s[2], s[3], WordAdd(s[4], t1), s[5], s[6],
         s[7] >>

RECURSIVE Sha256Rounds(_, _, _)
\* the rounds t..64 on the eight working variables
Sha256Rounds(s, w, t) ==
  IF t > 64 \/ Len(s) # 8 THEN s
  ELSE Sha256Rounds(Sha256Round(s, w[t], Sha256K[t]), w, t + 1)

RECURSIVE Sha256Blocks(_, _, _)
\* the hash value after the blocks from `offset` on (section 6.2.2)
Sha256Blocks(h, padded, offset) ==
  IF offset >= Len(padded) THEN h
  ELSE LET s == Sha256Rounds(h, Sha256Schedule(Sha256Block(padded, offset)),
                             1)
       IN  Sha256Blocks([i \in 1..8 |-> WordAdd(h[i], s[i])], padded,
                        offset + 64)

\* crypto.subtle.digest("SHA-256", data) as a byte array (21, 22)
Sha256Digest(data) ==
  LET h == Sha256Blocks(Sha256H0, Sha256Pad(data), 0) IN
    [i \in 1..32 |->
       LET word == h[((i - 1) \div 4) + 1]
           half == IF ((i - 1) % 4) < 2 THEN word[1] ELSE word[2]
       IN  IF i % 2 = 1 THEN half \div 256 ELSE half % 256]

\* the alphabet of btoa
Base64Alphabet ==
  << "A", "B", "C", "D", "E", "F", "G", "H", "I", "J", "K", "L", "M",
     "N", "O", "P", "Q", "R", "S", "T", "U", "V", "W", "X", "Y", "Z",
     "a", "b", "c", "d", "e", "f", "g", "h", "i", "j", "k", "l", "m",
     "n", "o", "p", "q", "r", "s", "t", "u", "v", "w", "x", "y", "z",
     "0", "1", "2", "3", "4", "5", "6", "7", "8", "9", "+", "/" >>

RECURSIVE btoa(_)
\* btoa(String.fromCharCode(...bytes)) (22)
btoa(bytes) ==
  IF Len(bytes) = 0 THEN << >>
  ELSE IF Len(bytes) = 1
  THEN << Base64Alphabet[(bytes[1] \div 4) + 1],
          Base64Alphabet[(bytes[1] % 4) * 16 + 1], "=", "=" >>
  ELSE IF Len(bytes) = 2
  THEN << Base64Alphabet[(bytes[1] \div 4) + 1],
          Base64Alphabet[(bytes[1] % 4) * 16 + (bytes[2] \div 16) + 1],
          Base64Alphabet[(bytes[2] % 16) * 4 + 1], "=" >>
  ELSE << Base64Alphabet[(bytes[1] \div 4) + 1],
          Base64Alphabet[(bytes[1] % 4) * 16 + (bytes[2] \div 16) + 1],
          Base64Alphabet[(bytes[2] % 16) * 4 + (bytes[3] \div 64) + 1],
          Base64Alphabet[(bytes[3] % 64) + 1] >>
         \o btoa(SubSeq(bytes, 4, Len(bytes)))

\* str.replace(/c/g, by) for a single character c
ReplaceAll(str, c, by) ==
  [i \in 1..Len(str) |-> IF str[i] = c THEN by ELSE str[i]]

RECURSIVE StripTrailing(_, _)
\* str.replace(/c+$/, "") for a single character c
StripTrailing(str, c) ==
  IF Len(str) > 0 /\ str[Len(str)] = c
  THEN StripTrailing(SubSeq(str, 1, Len(str) - 1), c)
  ELSE str

\* Variant of Base64Url: the trailing padding is kept.
Base64Url_KeepPadding(hash) ==
  ReplaceAll(ReplaceAll(btoa(hash), "+", "-"), "/", "_")

\* the return expression of sha256 (22-25)
Base64Url(hash) ==
  StripTrailing(ReplaceAll(ReplaceAll(btoa(hash), "+", "-"), "/", "_"), "=")

\* the verifier of RFC 7636 appendix B
TestVerifier ==
  << "d", "B", "j", "f", "t", "J", "e", "Z", "4", "C", "V", "P", "-",
     "m", "B", "9", "2", "K", "2", "7", "u", "h", "b", "U", "J", "U",
     "1", "p", "1", "r", "_", "w", "W", "1", "g", "F", "W", "F", "O",
     "E", "j", "X", "k" >>

\* a verifier of 128 characters
LongVerifier == Charset \o SubSeq(Charset, 1, 62)

\* the characters the other inputs are made of
EncSymbols == {"A", "z", "9", "~"}

\* the strings sha256 is called with
EncInputs ==
  {TestVerifier, LongVerifier}
    \cup UNION { [1..n -> EncSymbols] : n \in 0..MaxPlainLen }

\* sha256 up to `await crypto.subtle.digest` (18-21)
sha256Call ==
  /\ enc.pc = "idle"
  /\ \E plain \in EncInputs :
       enc' = [pc |-> "digest", plain |-> plain, data |-> TextEncode(plain)]
  /\ UNCHANGED << flowVars, gen, na, cj, px >>

\* sha256 from the resumption to its return (21-25)
sha256Return ==
  /\ enc.pc = "digest"
  /\ LET hash == Sha256Digest(enc.data) IN
       enc' = [pc |-> "returned", plain |-> enc.plain, hash |-> hash,
               result |-> Base64Url(hash)]
  /\ UNCHANGED << flowVars, gen, na, cj, px >>

\* the caller has taken the result
sha256Done ==
  /\ enc.pc = "returned"
  /\ enc' = EncIdle
  /\ UNCHANGED << flowVars, gen, na, cj, px >>

EncNext ==
  \/ sha256Call
  \/ sha256Return
  \/ sha256Done

EncSpec == Init /\ [][EncNext]_vars

(***************************************************************************)
(* The NextAuth route on its own (src/app/api/auth/[...nextauth]/route.ts). *)
(* A JavaScript number is [t |-> "number", v |-> n], NaN or undefined a     *)
(* record of its own; times are in milliseconds.                            *)
(***************************************************************************)

Num(n) == [t |-> "number", v |-> n]
NaN == [t |-> "nan"]
NoNumber == [t |-> "undefined"]

\* x is truthy: a number other than 0, not NaN, not undefined
NumTruthy(x) == x.t = "number" /\ x.v # 0

\* now < x in JavaScript: false for NaN and for undefined
LessThan(now, x) == x.t = "number" /\ now < x.v

\* x * 1000: NaN for undefined
TimesThousand(x) == IF x.t = "number" THEN Num(x.v * 1000) ELSE NaN

\* now + x
PlusNow(now, x) == IF x.t = "number" THEN Num(now + x.v) ELSE NaN

\* the token NextAuth hands to the first jwt invocation of a session
DefaultToken ==
  [accessToken |-> Undefined, refreshToken |-> Undefined,
   accessTokenExpires |-> NoNumber, idToken |-> Undefined,
   user |-> Undefined, error |-> Undefined]

NoAccount == [present |-> FALSE]

\* the account of a sign-in: the token set of the provider
Accounts ==
  { [present |-> TRUE, access_token |-> "at1", refresh_token |-> "rt1",
     expires_at |-> e, id_token |-> "id1"] :
       e \in {NoNumber, Num(1), Num(2)} }

NoProfile == [present |-> FALSE]

Profiles == { [present |-> TRUE, sub |-> "user1"] }

\* answers to the refresh request: fetch rejects; a status with a body
\* that is not JSON, is null, or is an object
RefreshBodies ==
  {NotJson, JsonNull}
    \cup { [kind |-> "object", access_token |-> a, expires_in |-> e,
            refresh_token |-> r] :
             a \in {Undefined, "at2"}, e \in {NoNumber, Num(1)},
             r \in {Undefined, "rt2"} }

RefreshResponses ==
  {TransportFailure}
    \cup { [transport |-> TRUE, ok |-> k, body |-> b] :
             k \in BOOLEAN, b \in RefreshBodies }

RefreshErrorValue == "RefreshAccessTokenError"

\* Variant of jwtFresh: the token is still returned as it is at the
\* millisecond of its expiry.
jwtFresh_AtExpiry(token, now) ==
  /\ NumTruthy(token.accessTokenExpires)
  /\ ~LessThan(token.accessTokenExpires.v, Num(now))

\* the guard of `return token` in the jwt callback (110-113)
jwtFresh(token, now) ==
  /\ NumTruthy(token.accessTokenExpires)
  /\ LessThan(now, token.accessTokenExpires)

\* Variant of refreshTry: the refresh token is taken from the answer also
\* when the answer has none.
refreshTry_NoFallback(token, response, now) ==
  IF ~response.transport \/ response.body.kind # "object" \/ ~response.ok
  THEN [threw |-> TRUE]
  ELSE [threw |-> FALSE,
        value |->
          [token EXCEPT
             !.accessToken = response.body.access_token,
             !.accessTokenExpires =
               PlusNow(now, TimesThousand(response.body.expires_in)),
             !.refreshToken = response.body.refresh_token]]

\* the try block of refreshAccessToken once fetch has settled (46-71):
\* what it returns, or that it throws
refreshTry(token, response, now) ==
  IF ~response.transport
  THEN [threw |-> TRUE]                      \* fetch rejects (49)
  ELSE IF response.body.kind = "text"
  THEN [threw |-> TRUE]                      \* response.json() rejects (62)
  ELSE IF ~response.ok
  THEN [threw |-> TRUE]                      \* throw refreshedTokens (64-66)
  ELSE IF response.body.kind = "null"
  THEN [threw |-> TRUE]                      \* TypeError at 70
  ELSE [threw |-> FALSE,
        value |->
          [token EXCEPT
             !.accessToken = response.body.access_token,
             !.accessTokenExpires =
               PlusNow(now, TimesThousand(response.body.expires_in)),
             !.refreshToken =
               IF response.body.refresh_token = Undefined
               THEN token.refreshToken
               ELSE response.body.refresh_token]]

\* Variant of refreshAccessToken: the catch block returns a token that
\* keeps only the error.
refreshAccessToken_ErrorOnly(token, response, now) ==
  LET tried == refreshTry(token, response, now) IN
    IF tried.threw
    THEN [threw |-> FALSE,
          value |-> [DefaultToken EXCEPT !.error = RefreshErrorValue]]
    ELSE tried

\* refreshAccessToken (45-82): the try block, and the catch block (73-80)
\* when it throws
refreshAccessToken(token, response, now) ==
  LET tried == refreshTry(token, response, now) IN
    IF tried.threw
    THEN [threw |-> FALSE,
          value |-> [token EXCEPT !.error = RefreshErrorValue]]
    ELSE tried

NoSession == [checked |-> FALSE]

NoCall == [kind |-> "none"]

\* the jwt callback (90-121) up to its return or to the fetch of
\* refreshAccessToken; the first invocation of a session is the sign-in
jwt ==
  /\ na.pc \in {"idle", "ready"}
  /\ \E account \in Accounts \cup {NoAccount},
        profile \in Profiles \cup {NoProfile} :
       LET token == IF na.pc = "idle" THEN DefaultToken ELSE na.token
           now == IF na.pc = "idle" THEN 500 ELSE na.now
           session == IF na.pc = "idle" THEN NoSession ELSE na.session
           call == [kind |-> "jwt", input |-> token, at |-> now,
                    initial |-> account.present /\ profile.present,
                    fetches |-> 0, response |-> NoResponse,
                    refreshed |-> [threw |-> FALSE, value |-> token],
                    threw |-> FALSE, output |-> token]
       IN
         /\ na.pc = "idle" => account.present /\ profile.present
         /\ IF account.present /\ profile.present
            THEN LET signedIn ==
                       [token EXCEPT
                          !.accessToken = account.access_token,
                          !.refreshToken = account.refresh_token,
                          !.accessTokenExpires =
                            IF NumTruthy(account.expires_at)
                            THEN TimesThousand(account.expires_at)
                            ELSE Num(0),
                          !.idToken = account.id_token,
                          !.user = profile.sub]
                 IN na' = [pc |-> "ready", now |-> now, token |-> signedIn,
                           session |-> session,
                           last |-> [call EXCEPT !.output = signedIn]]
            ELSE IF jwtFresh(token, now)
            THEN na' = [pc |-> "ready", now |-> now, token |-> token,
                        session |-> session, last |-> call]
            ELSE na' = [pc |-> "refreshing", now |-> now, token |-> token,
                        session |-> session,
                        last |-> [call EXCEPT !.fetches = @ + 1]]
  /\ UNCHANGED << flowVars, gen, enc, cj, px >>

\* refreshAccessToken from the settling of fetch to its return, and the
\* return of the jwt callback (49-81, 116)
jwtRefreshed ==
  /\ na.pc = "refreshing"
  /\ \E response \in RefreshResponses :
       LET refreshed == refreshAccessToken(na.token, response, na.now) IN
         na' = [na EXCEPT
                  !.pc = "ready",
                  !.token = IF refreshed.threw THEN @ ELSE refreshed.value,
                  !.last = [@ EXCEPT
                              !.response = response,
                              !.refreshed = refreshed,
                              !.threw = refreshed.threw,
                              !.output = IF refreshed.threw
                                         THEN DefaultToken
                                         ELSE refreshed.value]]
  /\ UNCHANGED << flowVars, gen, enc, cj, px >>

\* the session callback (124-130), given the token of the last jwt return
session ==
  /\ na.pc = "ready"
  /\ na' = [na EXCEPT
              !.session = [checked |-> TRUE, of |-> na.token,
                           user |-> na.token.user,
                           accessToken |-> na.token.accessToken,
                           error |-> na.token.error]]
  /\ UNCHANGED << flowVars, gen, enc, cj, px >>

\* half a second passes
Tick ==
  /\ na.pc \in {"ready", "refreshing"}
  /\ na.now < 500 * MaxTicks
  /\ na' = [na EXCEPT !.now = @ + 500]
  /\ UNCHANGED << flowVars, gen, enc, cj, px >>

NaNext ==
  \/ jwt
  \/ jwtRefreshed
  \/ session
  \/ Tick

NaSpec == Init /\ [][NaNext]_vars

(***************************************************************************)
(* The cards of the home page (src/app/page.tsx 80-200): user info, token  *)
(* refresh and introspection.  Their buttons are disabled while loading    *)
(* (377-425).  HomeSpec runs them along one sign-in after the other.       *)
(***************************************************************************)
NoAccessTokenExchangeMessage ==
  "No access token found. Please exchange code first."
NoAccessTokenMessage == "No access token found."
UserInfoFailedMessage == "Failed to get user info"
RefreshFailedMessage == "Token refresh failed"
IntrospectionFailedMessage == "Token introspection failed"

\* the handlers that read a token entry first: the entry each reads
\* (85, 113, 173, 243) and the message each throws without it
TokenHandlers == {"userinfo", "refresh", "introspect", "revoke"}

EntryReadBy(h) ==
  IF h \in {"userinfo", "introspect"} THEN "access_token"
  ELSE "refresh_token"

MissingTokenMessage(h) ==
  CASE h = "userinfo" -> NoAccessTokenExchangeMessage
    [] h = "introspect" -> NoAccessTokenMessage
    [] OTHER -> NoRefreshTokenMessage

\* Variant of HandlerStart: the request is sent whatever the entry holds.
HandlerStart_AlwaysFetch(h) ==
  /\ page = "home"
  /\ ~home.loading
  /\ home.op = "none"
  /\ home' = [home EXCEPT !.error = NoError, !.loading = TRUE, !.op = h]
  /\ UNCHANGED << page, storage, pending, href, authReq, issued,
                  nextVerifier, cb, loads, requests >>
  /\ UNCHANGED sideVars

\* a handler up to its `await fetch`: setLoading(true), setError(null),
\* the read of the token entry, and without a token the throw, the catch
\* and the finally (81-88 and 100-104; 109-116; 169-176)
HandlerStart(h) ==
  /\ page = "home"
  /\ ~home.loading
  /\ home.op = "none"
  /\ IF ~Truthy(getItem(storage, EntryReadBy(h)))
     THEN home' = [home EXCEPT !.error = ErrorMessage(MissingTokenMessage(h)),
                               !.loading = FALSE]
     ELSE home' = [home EXCEPT !.error = NoError, !.loading = TRUE,
                               !.op = h]
  /\ UNCHANGED << page, storage, pending, href, authReq, issued,
                  nextVerifier, cb, loads, requests >>
  /\ UNCHANGED sideVars

\* getUserInfo up to `await fetch` (80-92)
getUserInfo == HandlerStart("userinfo")

\* the home page's refreshAccessToken up to `await fetch` (108-128)
refreshAccessTokenHome == HandlerStart("refresh")

\* introspectToken up to `await fetch` (168-186)
introspectToken == HandlerStart("introspect")

\* answers to a request whose body is shown and not stored: fetch
\* rejects, non-2xx, 2xx with a body that is not JSON, 2xx with JSON
ShownAnswers == {"transport", "rejected", "text", "ok"}

\* the end of getUserInfo (94-104) and of introspectToken (188-199)
ShownAnswered(h, failedMessage, answer) ==
  /\ page = "home"
  /\ home.op = h
  /\ home' = [home EXCEPT
                !.error = CASE answer = "transport"
                                 -> ErrorMessage("Failed to fetch")
                            [] answer = "rejected"
                                 -> ErrorMessage(failedMessage)
                            [] answer = "text"
                                 -> ErrorMessage("Unexpected token in JSON")
                            [] OTHER -> @,
                !.loading = FALSE, !.op = "none"]
  /\ UNCHANGED << page, storage, pending, href, authReq, issued,
                  nextVerifier, cb, loads, requests >>
  /\ UNCHANGED sideVars

getUserInfoResponse ==
  \E answer \in ShownAnswers :
    ShownAnswered("userinfo", UserInfoFailedMessage, answer)

introspectTokenResponse ==
  \E answer \in ShownAnswers :
    ShownAnswered("introspect", IntrospectionFailedMessage, answer)

\* a JSON object body of a 2xx answer to the refresh grant: each member
\* present or missing
RefreshedObjects ==
  { [kind |-> "object",
     access_token |-> a, id_token |-> i, refresh_token |-> f,
     error |-> Undefined, error_description |-> Undefined] :
       a \in {Undefined, "at-r"}, i \in {Undefined, "id-r"},
       f \in {Undefined, "rt-r"} }

\* answers of the token endpoint to the refresh grant
TokenRefreshResponses ==
  {TransportFailure}
    \cup { [transport |-> TRUE, ok |-> TRUE, body |-> b] :
             b \in RefreshedObjects \cup {NotJson, JsonNull} }
    \cup { [transport |-> TRUE, ok |-> FALSE, body |-> NotJson] }

\* the request of the refresh failed: fetch rejected or the status is
\* not 2xx
RefreshRequestFailed(response) == ~response.transport \/ ~response.ok

\* the error the home page's refreshAccessToken ends with (130-141),
\* NoError when nothing is thrown
RefreshError(response) ==
  IF ~response.transport
  THEN ErrorMessage("Failed to fetch")
  ELSE IF ~response.ok
  THEN ErrorMessage(RefreshFailedMessage)
  ELSE IF response.body = NotJson
  THEN ErrorMessage("Unexpected token in JSON")
  ELSE IF response.body = JsonNull
  THEN ErrorMessage("Cannot read properties of null")
  ELSE NoError

\* the entries written after a refresh (136-139)
StoreRefreshed(s, tokenData) ==
  LET s1 == setItem(s, "access_token", tokenData.access_token) IN
    IF Truthy(tokenData.refresh_token)
    THEN setItem(s1, "refresh_token", tokenData.refresh_token)
    ELSE s1

\* Variant of refreshAccessTokenHomeAnswered: the body is stored before
\* the status is looked at.
refreshAccessTokenHomeAnswered_StoreFirst(response) ==
  /\ page = "home"
  /\ home.op = "refresh"
  /\ LET err == RefreshError(response) IN
       /\ storage' = IF err = NoError
                     THEN StoreRefreshed(storage, response.body)
                     ELSE EmptyStorage
       /\ home' = [home EXCEPT
                     !.tokens = IF err = NoError THEN response.body
                                ELSE JsonNull,
                     !.error = IF err = NoError THEN @ ELSE err,
                     !.loading = FALSE, !.op = "none"]
  /\ UNCHANGED << page, pending, href, authReq, issued, nextVerifier, cb,
                  loads, requests >>
  /\ UNCHANGED sideVars

\* the home page's refreshAccessToken from the resumption after
\* `await fetch` to its end (130-144): setTokens(tokenData) runs before
\* the first member of tokenData is read
refreshAccessTokenHomeAnswered(response) ==
  /\ page = "home"
  /\ home.op = "refresh"
  /\ LET err == RefreshError(response) IN
       /\ storage' = IF err = NoError
                     THEN StoreRefreshed(storage, response.body)
                     ELSE storage
       /\ home' = [home EXCEPT
                     !.tokens = IF err = NoError
                                   \/ (response.transport /\ response.ok
                                        /\ response.body = JsonNull)
                                THEN response.body ELSE @,
                     !.error = IF err = NoError THEN @ ELSE err,
                     !.loading = FALSE, !.op = "none"]
  /\ UNCHANGED << page, pending, href, authReq, issued, nextVerifier, cb,
                  loads, requests >>
  /\ UNCHANGED sideVars

refreshAccessTokenHomeResponse ==
  \E response \in TokenRefreshResponses :
    refreshAccessTokenHomeAnswered(response)

HomeNext ==
  \/ HomeEffect
  \/ startAuthFlow
  \/ \E v \in pending : startAuthFlowResume(v)
  \/ FollowNavigation
  \/ AuthorizerRedirectCode
  \/ CallbackEffect
  \/ TokenResponse
  \/ RedirectTimer
  \/ getUserInfo
  \/ getUserInfoResponse
  \/ refreshAccessTokenHome
  \/ refreshAccessTokenHomeResponse
  \/ introspectToken
  \/ introspectTokenResponse
  \/ revokeToken
  \/ revokeTokenResponse
  \/ logout
  \/ PostLogoutRedirect

HomeSpec == Init /\ [][HomeNext]_vars

(***************************************************************************)
(* Requests of one session that reach the jwt callback at the same time    *)
(* (route.ts 90-121): each decodes the session cookie on its own, and the  *)
(* cookie is rewritten with what each returns.                             *)
(***************************************************************************)

\* the tokens a sign-in leaves in the session cookie (93-108)
SessionTokens ==
  { [DefaultToken EXCEPT
       !.accessToken = account.access_token,
       !.refreshToken = account.refresh_token,
       !.accessTokenExpires = IF NumTruthy(account.expires_at)
                              THEN TimesThousand(account.expires_at)
                              ELSE Num(0),
       !.idToken = account.id_token,
       !.user = "user1"] : account \in Accounts }

\* the session as MaxConcurrent requests arrive: the cookie, the clock,
\* the requests' positions, the refresh tokens sent to the token endpoint
concurrentRequests ==
  /\ cj.pc = "idle"
  /\ \E token \in SessionTokens, k \in 1..MaxTicks :
       cj' = [pc |-> "serving", now |-> 500 * k, cookie |-> token,
              calls |-> [i \in 1..MaxConcurrent |->
                           [pc |-> "none", token |-> token]],
              sent |-> << >>]
  /\ UNCHANGED << flowVars, gen, enc, na, px >>

\* the jwt callback of request i (90-121) up to its return or to the
\* fetch of refreshAccessToken (49-60)
jwtConcurrent(i) ==
  /\ cj.pc = "serving"
  /\ cj.calls[i].pc = "none"
  /\ LET token == cj.cookie IN
       IF jwtFresh(token, cj.now)
       THEN cj' = [cj EXCEPT !.calls[i] = [pc |-> "returned",
                                           token |-> token]]
       ELSE cj' = [cj EXCEPT
                     !.calls[i] = [pc |-> "refreshing", token |-> token],
                     !.sent = Append(@, token.refreshToken)]
  /\ UNCHANGED << flowVars, gen, enc, na, px >>

\* refreshAccessToken of request i from the settling of fetch to its
\* return (60-81); the cookie is rewritten with the returned token
jwtConcurrentRefreshed(i) ==
  /\ cj.pc = "serving"
  /\ cj.calls[i].pc = "refreshing"
  /\ \E response \in RefreshResponses :
       LET refreshed ==
             refreshAccessToken(cj.calls[i].token, response, cj.now) IN
         cj' = [cj EXCEPT
                  !.calls[i] = [pc |-> "returned",
                                token |-> IF refreshed.threw
                                          THEN DefaultToken
                                          ELSE refreshed.value],
                  !.cookie = IF refreshed.threw THEN @ ELSE refreshed.value]
  /\ UNCHANGED << flowVars, gen, enc, na, px >>

ConcurrentNext ==
  \/ concurrentRequests
  \/ \E i \in 1..MaxConcurrent : jwtConcurrent(i)
  \/ \E i \in 1..MaxConcurrent : jwtConcurrentRefreshed(i)

ConcurrentSpec == Init /\ [][ConcurrentNext]_vars

(***************************************************************************)
(* The proxy-auth route (src/app/api/proxy-auth/route.ts).  Header values  *)
(* are sequences of one-character strings.                                 *)
(***************************************************************************)

\* what headers.get() returns for a header the answer does not have, and
\* the uid before it is assigned: null
Absent == << Null >>

UpperLetters ==
  << "A", "B", "C", "D", "E", "F", "G", "H", "I", "J", "K", "L", "M", "N",
     "O", "P", "Q", "R", "S", "T", "U", "V", "W", "X", "Y", "Z" >>

LowerLetters ==
  << "a", "b", "c", "d", "e", "f", "g", "h", "i", "j", "k", "l", "m", "n",
     "o", "p", "q", "r", "s", "t", "u", "v", "w", "x", "y", "z" >>

\* the case folding of the regular expressions' i flag
FoldCase(c) ==
  IF \E i \in DOMAIN UpperLetters : UpperLetters[i] = c
  THEN LowerLetters[CHOOSE i \in DOMAIN UpperLetters : UpperLetters[i] = c]
  ELSE c

\* word stands in str at index i, whatever the case of the letters
MatchesAt(str, i, word) ==
  /\ i + Len(word) - 1 <= Len(str)
  /\ \A k \in 1..Len(word) : FoldCase(str[i + k - 1]) = word[k]

\* String.prototype.includes
includes(str, sub) ==
  \E i \in 1..Len(str) :
    /\ i + Len(sub) - 1 <= Len(str)
    /\ SubSeq(str, i, i + Len(sub) - 1) = sub

\* String.prototype.split with a one-character separator
RECURSIVE split(_, _)
split(str, sep) ==
  IF \A i \in 1..Len(str) : str[i] # sep
  THEN << str >>
  ELSE LET k == CHOOSE i \in 1..Len(str) :
                  str[i] = sep /\ \A j \in 1..(i - 1) : str[j] # sep
       IN << SubSeq(str, 1, k - 1) >>
            \o split(SubSeq(str, k + 1, Len(str)), sep)

InteractionPath == << "/", "i", "n", "t", "e", "r", "a", "c", "t", "i",
   "o", "n", "/" >>
DomainWord == << "d", "o", "m", "a", "i", "n", "=" >>
SecureWord == << "s", "e", "c", "u", "r", "e" >>

\* the index after the longest run of characters other than ';' from i
RECURSIVE AfterValue(_, _)
AfterValue(str, i) ==
  IF i > Len(str) \/ str[i] = ";" THEN i ELSE AfterValue(str, i + 1)

\* the index after an optional ';' at i
AfterSemicolon(str, i) == IF i <= Len(str) /\ str[i] = ";" THEN i + 1 ELSE i

\* replace(/Domain=[^;]+;?/gi, "") from index i on (48)
RECURSIVE RemoveDomain(_, _)
RemoveDomain(str, i) ==
  IF i > Len(str) THEN << >>
  ELSE IF MatchesAt(str, i, DomainWord)
          /\ AfterValue(str, i + Len(DomainWord)) > i + Len(DomainWord)
  THEN RemoveDomain(str,
         AfterSemicolon(str, AfterValue(str, i + Len(DomainWord))))
  ELSE << str[i] >> \o RemoveDomain(str, i + 1)

\* replace(/Secure;?/gi, "") from index i on (49)
RECURSIVE RemoveSecure(_, _)
RemoveSecure(str, i) ==
  IF i > Len(str) THEN << >>
  ELSE IF MatchesAt(str, i, SecureWord)
  THEN RemoveSecure(str, AfterSemicolon(str, i + Len(SecureWord)))
  ELSE << str[i] >> \o RemoveSecure(str, i + 1)

\* Variant of AdjustCookie: only the Domain attribute is stripped.
AdjustCookie_KeepSecure(setCookie) == RemoveDomain(setCookie, 1)

\* adjustedCookie (47-49)
AdjustCookie(setCookie) == RemoveSecure(RemoveDomain(setCookie, 1), 1)

\* the uid taken from the Location header (22-26)
ExtractUid(location) ==
  IF /\ location # Absent
     /\ location # << >>
     /\ includes(location, InteractionPath)
  THEN LET parts == split(location, "/") IN parts[Len(parts)]
  ELSE Absent

\* Location headers of the upstream answer
Locations ==
  {Absent, << >>}
    \cup { pre \o mid \o last :
             pre \in { << >>, << "h", "t", "t", "p", ":", "/", "/", "h" >> },
             mid \in { << "/", "i", "n", "t", "e", "r", "a", "c", "t", "i",
                "o", "n", "/" >>, << "/", "i", "n", "t", "e", "r", "a",
                "c", "t", "i", "o", "n" >>, << "/", "l", "o", "g", "i",
                "n", "/" >>,
                       << "i", "n", "t", "e", "r", "a", "c", "t", "i", "o",
                          "n", "/" >> },
             last \in { << >>, << "u", "1" >>, << "u", "1", "/" >>, << "u",
                "1", "/", "x" >> } }

\* Set-Cookie headers of the upstream answer (RFC 6265 section 4.1): a
\* cookie pair and up to MaxAttributes attributes
CookiePairs == { << "s", "=", "1" >>, << "_", "_", "S", "e", "c", "u", "r",
   "e", "-", "s", "=", "1" >> }

CookieAttributes ==
  { << "P", "a", "t", "h", "=", "/" >>,
    << "D", "o", "m", "a", "i", "n", "=", "h", ".", "i", "o" >>,
    << "d", "o", "m", "a", "i", "n", "=", "h" >>,
    << "S", "e", "c", "u", "r", "e" >>,
    << "S", "E", "C", "U", "R", "E" >>,
    << "H", "t", "t", "p", "O", "n", "l", "y" >>,
    << "S", "a", "m", "e", "S", "i", "t", "e", "=", "L", "a", "x" >> }

RECURSIVE WithAttributes(_, _)
WithAttributes(headers, n) ==
  IF n = 0 THEN headers
  ELSE headers \cup
         { h \o << ";", " " >> \o a :
             h \in WithAttributes(headers, n - 1), a \in CookieAttributes }

SetCookies == {Absent, << >>} \cup WithAttributes(CookiePairs, MaxAttributes)

\* what fetch(oidcUrl) settles with: a rejection, or an answer with its
\* Location and Set-Cookie headers
Upstreams ==
  { [threw |-> TRUE] }
    \cup { [threw |-> FALSE, location |-> l, setCookie |-> c] :
             l \in Locations, c \in SetCookies }

\* GET up to `await fetch` (3-13)
proxyAuthGET ==
  /\ px.pc \in {"idle", "answered"}
  /\ px' = [pc |-> "fetching"]
  /\ UNCHANGED << flowVars, gen, enc, na, cj >>

\* the answer built for an upstream outcome (15-63); setCookie is the
\* Set-Cookie header of the answer, Absent without one
ProxyAnswer(upstream) ==
  IF upstream.threw
  THEN [status |-> 500, uid |-> Absent,
        error |-> "Internal Server Error", setCookie |-> Absent]
  ELSE LET uid == ExtractUid(upstream.location) IN
         IF uid = Absent \/ uid = << >>
         THEN [status |-> 500, uid |-> Absent,
               error |-> "Failed to extract UID from redirect",
               setCookie |-> Absent]
         ELSE [status |-> 200, uid |-> uid, error |-> Undefined,
               setCookie |->
                 IF upstream.setCookie # Absent /\ upstream.setCookie # << >>
                 THEN AdjustCookie(upstream.setCookie)
                 ELSE Absent]

\* GET from the resumption after `await fetch` to its return (15-63)
proxyAuthFetched ==
  /\ px.pc = "fetching"
  /\ \E upstream \in Upstreams :
       px' = [pc |-> "answered", upstream |-> upstream,
              response |-> ProxyAnswer(upstream)]
  /\ UNCHANGED << flowVars, gen, enc, na, cj >>

ProxyNext == proxyAuthGET \/ proxyAuthFetched

ProxySpec == Init /\ [][ProxyNext]_vars

(***************************************************************************)
(* Properties.                                                             *)
(***************************************************************************)

\* the token requests sent by load n of the callback page
RequestsOfLoad(n) == { i \in DOMAIN requests : requests[i].load = n }

\* the exchange of the current load has ended (success or failure)
ExchangeEnded == page = "callback" /\ cb.pc = "done"

\* the exchange of the current load ended after an answer of the endpoint
Answered == ExchangeEnded /\ cb.response.transport

\* sessionStorage token entries are what they were when the attempt began
TokenEntriesUntouched == \A k \in TokenKeys : storage[k] = cb.before[k]

\* C1: after any exchange attempt, success or failure, sessionStorage holds
\* no code_verifier: a read of it returns nothing.
C1_VerifierClearedAfterExchange ==
  ExchangeEnded => ~Truthy(getItem(storage, "code_verifier"))

\* C2: an exchange that finds no code_verifier in sessionStorage (no entry
\* or an empty one) ends with the missing-verifier error, sends no token
\* request and writes nothing to sessionStorage.
C2_MissingVerifierNoRequest ==
  (page = "callback" /\ cb.verifierRead
     /\ ~Truthy(cb.before["code_verifier"]))
    => /\ cb.pc = "done"
       /\ cb.error = ErrorMessage(MissingVerifierMessage)
       /\ ~cb.exchanging
       /\ RequestsOfLoad(cb.load) = {}
       /\ storage = cb.before

\* C2 witness: a verifier was stored, sessionStorage was cleared, and the
\* exchange of a code then ended with the missing-verifier error.
C2_Witness ==
  /\ ExchangeEnded
  /\ nextVerifier > 1
  /\ getItem(storage, "code_verifier") = Null
  /\ cb.error = ErrorMessage(MissingVerifierMessage)

\* C3: whenever a navigation to /oidc/auth is requested or has been
\* followed, the stored code_verifier is the one its code_challenge was
\* derived from, also when startAuthFlow invocations overlap; and every
\* token request sent by a callback page reached through the authorization
\* server's redirect carries the verifier of the challenge its code is
\* bound to.
C3_VerifierMatchesChallenge ==
  /\ href.kind = "auth"
       => sha256(getItem(storage, "code_verifier")) = href.code_challenge
  /\ page = "authorizer"
       => sha256(getItem(storage, "code_verifier")) = authReq.code_challenge
  /\ \A i \in DOMAIN requests :
       requests[i].origin = "redirect"
         => sha256(requests[i].form.code_verifier)
              = ChallengeOf(requests[i].form.code)

\* C3 witness: two invocations overlapped at the await and resumed in the
\* reverse order; the navigation requested last is the first invocation's.
C3_Witness ==
  /\ page = "home"
  /\ nextVerifier = 3
  /\ pending = {}
  /\ home.error = NoError
  /\ href = AuthUrl(sha256(Verifier(1)), StateOf(Verifier(1)))
  /\ getItem(storage, "code_verifier") = Verifier(1)

\* C4: after a failed token exchange no later token request carries the
\* code or the code_verifier of the failed one.
C4_NoReuseAfterFailure ==
  \A i, j \in DOMAIN requests :
    (i < j /\ requests[i].outcome = "failed")
      => /\ requests[j].form.code # requests[i].form.code
         /\ requests[j].form.code_verifier # requests[i].form.code_verifier

\* C5: one load of the callback page sends at most one POST to /oidc/token,
\* whatever its outcome.
C5_AtMostOneRequestPerLoad ==
  \A n \in 1 .. loads : Cardinality(RequestsOfLoad(n)) <= 1

\* C5 witness: the exchange of the current load has failed after its
\* request was sent.
C5_Witness ==
  /\ ExchangeEnded
  /\ cb.error # NoError
  /\ \E i \in RequestsOfLoad(cb.load) : requests[i].outcome = "failed"

\* C6: a 2xx answer whose body is not JSON or lacks access_token makes the
\* exchange fail and writes no token entry to sessionStorage.
C6_MalformedResponseFails ==
  (Answered /\ cb.response.ok
     /\ (cb.response.body.kind # "object"
           \/ cb.response.body.access_token = Undefined))
    => /\ cb.error # NoError
       /\ TokenEntriesUntouched

\* C7: a non-2xx answer makes the exchange fail with an error that carries
\* the upstream error and error_description when present, and the generic
\* message only when neither is present.
C7_RejectionCarriesUpstreamError ==
  (Answered /\ ~cb.response.ok /\ cb.response.body.kind = "object")
    => LET body == cb.response.body IN
         /\ cb.error # NoError
         /\ Truthy(body.error) => Carries(cb.error, body.error)
         /\ Truthy(body.error_description)
              => Carries(cb.error, body.error_description)
         /\ cb.error = ErrorMessage(GenericExchangeMessage)
              <=> (~Truthy(body.error) /\ ~Truthy(body.error_description))

\* the sessionStorage entry a validated response member leads to
EntryOf(member) == IF member = Undefined THEN Null ELSE member

\* C8: token entries are written only after a fully validated successful
\* response: a failed attempt leaves them as they were, a successful one
\* was answered with a body that has access_token and leaves all four
\* entries taken from that body.
C8_TokensOnlyFromValidatedResponse ==
  ExchangeEnded
    => /\ cb.error # NoError => TokenEntriesUntouched
       /\ cb.error = NoError
            => LET body == cb.response.body IN
                 /\ IsGrant(cb.response)
                 /\ body.access_token # Undefined
                 /\ storage["access_token"] = body.access_token
                 /\ storage["id_token"] = EntryOf(body.id_token)
                 /\ storage["refresh_token"] = EntryOf(body.refresh_token)
                 /\ storage["tokens"] = JSONstringify(body)

\* C9: after a successful exchange whose response has no refresh_token,
\* sessionStorage holds no refresh_token entry.
C9_NoRefreshTokenLeft ==
  (ExchangeEnded /\ cb.error = NoError
     /\ cb.response.body.refresh_token = Undefined)
    => getItem(storage, "refresh_token") = Null

\* what C10 asks of a load that must not exchange: failed, verifier not
\* read, no token request
RejectedWithoutExchange ==
  /\ cb.pc = "rejected"
  /\ cb.error # NoError
  /\ ~cb.exchanging
  /\ ~cb.verifierRead
  /\ RequestsOfLoad(cb.load) = {}

\* the effect of the current load has run
EffectRan == page = "callback" /\ cb.pc # "mounted"

\* C10 as stated: a callback URL that carries an error parameter (whatever
\* its value) leads to the failed state without reading the verifier and
\* without a token request, also with a code in the URL; with neither error
\* nor code it fails with 'Authorization code missing'.
C10_ErrorParameterPresent ==
  EffectRan
    => /\ cb.errorParam # Null => RejectedWithoutExchange
       /\ (cb.errorParam = Null /\ cb.code = Null)
            => /\ RejectedWithoutExchange
               /\ cb.error = ErrorMessage(CodeMissingMessage)

\* C10 amended: a callback URL whose error parameter is non-empty leads to
\* the failed state, showing the error, without reading the verifier and
\* without a token request, also with a code in the URL; with neither error
\* nor code it fails with 'Authorization code missing'.
C10_ErrorParameterNonEmpty ==
  EffectRan
    => /\ Truthy(cb.errorParam)
            => /\ RejectedWithoutExchange
               /\ Carries(cb.error, cb.errorParam)
       /\ (cb.errorParam = Null /\ cb.code = Null)
            => /\ RejectedWithoutExchange
               /\ cb.error = ErrorMessage(CodeMissingMessage)

\* C10 witness: the URL carried an error and a code, a verifier was in
\* sessionStorage, and the page failed without exchanging.
C10_Witness ==
  /\ EffectRan
  /\ Truthy(cb.errorParam)
  /\ Truthy(cb.code)
  /\ Truthy(getItem(storage, "code_verifier"))
  /\ cb.pc = "rejected"

\* C11: when the user has left the callback page after the token request
\* was sent and before its answer, the answer that arrives later is
\* discarded: nothing is written to sessionStorage and no navigation to
\* '/' is scheduled.
C11_AbandonedResponseDiscarded ==
  [][(page = "home" /\ cb.pc = "fetching" /\ cb'.pc = "done")
       => (storage' = storage /\ ~cb'.timer)]_vars

\* C14: startAuthFlow stores the verifier before it requests the
\* navigation to /oidc/auth: at every step that requests the navigation
\* the stored code_verifier is the one of the requested challenge; an
\* invocation whose verifier or challenge generation fails stores nothing,
\* requests no navigation, sets the error and resets loading.
C14_StoredBeforeNavigation ==
  [][/\ (href' # href /\ href'.kind = "auth")
          => /\ Truthy(getItem(storage', "code_verifier"))
             /\ sha256(getItem(storage', "code_verifier"))
                  = href'.code_challenge
     /\ \A v \in pending :
          (v \notin pending' /\ page' = "home")
            => \/ /\ getItem(storage', "code_verifier") = v
                  /\ href' = AuthUrl(sha256(v), StateOf(v))
               \/ /\ storage' = storage
                  /\ href' = href
                  /\ home'.error # NoError
                  /\ ~home'.loading
     /\ (page = "home" /\ page' = "home" /\ pending' = pending
           /\ home'.error # NoError /\ home'.error # home.error)
          => /\ getItem(storage', "code_verifier")
                  = getItem(storage, "code_verifier")
             /\ href' = href
             /\ ~home'.loading]_vars

\* C14 witness: of two overlapping invocations one stored its verifier and
\* requested the navigation, the other failed at the challenge.
C14_Witness ==
  /\ page = "home"
  /\ nextVerifier = 3
  /\ pending = {}
  /\ href.kind = "auth"
  /\ home.error = ErrorMessage("digest failed")
  /\ ~home.loading
  /\ sha256(getItem(storage, "code_verifier")) = href.code_challenge

\* C15: every step of startAuthFlow that requests the navigation to
\* /oidc/auth has replaced the stored code_verifier by a new one and sends
\* the challenge of that new verifier: never the challenge of the verifier
\* stored before, nor the challenge of an earlier authorization request.
C15_FreshPairEachAttempt ==
  [][(href' # href /\ href'.kind = "auth")
       => /\ getItem(storage', "code_verifier")
               # getItem(storage, "code_verifier")
          /\ href'.code_challenge
               = sha256(getItem(storage', "code_verifier"))
          /\ href'.code_challenge
               # sha256(getItem(storage, "code_verifier"))
          /\ authReq # NoNav
               => href'.code_challenge # authReq.code_challenge
          /\ \A i \in DOMAIN requests :
               href'.code_challenge
                 # sha256(requests[i].form.code_verifier)]_vars

\* C15 witness: the exchange of the first flow failed with the first
\* verifier; a second login attempt has stored the second verifier and
\* requested the navigation.
C15_Witness ==
  /\ page = "home"
  /\ href = AuthUrl(sha256(Verifier(2)), StateOf(Verifier(2)))
  /\ getItem(storage, "code_verifier") = Verifier(2)
  /\ \E i \in DOMAIN requests :
       /\ requests[i].outcome = "failed"
       /\ requests[i].form.code_verifier = Verifier(1)

\* no token of the token set is left in sessionStorage or in the state of
\* the home page
TokenSetDestroyed ==
  /\ \A k \in TokenKeys : storage[k] = Null
  /\ home.tokens = JsonNull

\* a step of logout: the navigation to the end-session endpoint is
\* requested
LogoutStep == href' # href /\ href'.kind = "logout"

\* a step that ends an invocation of revokeToken after its request
RevokeEnds == page = "home" /\ page' = "home"
                /\ home.op = "revoke" /\ home'.op = "none"

\* a step of revokeToken that ends without a request: no refresh token
RevokeRefused ==
  /\ page = "home" /\ page' = "home"
  /\ home'.error = ErrorMessage(NoRefreshTokenMessage)
  /\ home'.error # home.error
  /\ \E k \in TokenKeys : storage[k] # Null

\* C16: after logout, and after an invocation of revokeToken with tokens
\* present, sessionStorage holds no access_token, id_token, refresh_token
\* or tokens entry and the tokens state of the page is null.
C16_DestroyedOnLogoutAndRevocation ==
  [][(LogoutStep \/ RevokeEnds \/ RevokeRefused) => TokenSetDestroyed']_vars

\* C16 as the code has it: after logout, and after an invocation of
\* revokeToken that ends without setting an error (its revocation request
\* got a 2xx answer), sessionStorage holds no access_token, id_token,
\* refresh_token or tokens entry and the tokens state of the page is null;
\* a refused or failed revocation, or one without a stored refresh token,
\* sets the error and leaves the token set.
C16_DestroyedOnLogoutAndRevoked ==
  [][/\ (LogoutStep \/ (RevokeEnds /\ home'.error = home.error))
          => TokenSetDestroyed'
     /\ ((RevokeEnds /\ home'.error # home.error) \/ RevokeRefused)
          => /\ storage' = storage
             /\ home'.tokens = home.tokens]_vars

\* C16 witness: the tokens of a granted exchange were stored and loaded by
\* the home page, no logout was requested, and a revocation answered 2xx
\* has emptied sessionStorage and the tokens state.
C16_Witness ==
  /\ page = "home"
  /\ href = NoNav
  /\ home.effectRun
  /\ home.op = "none"
  /\ ~home.loading
  /\ home.error = NoError
  /\ storage = EmptyStorage
  /\ home.tokens = JsonNull
  /\ \E i \in RequestsOfLoad(cb.load) : requests[i].outcome = "ok"

\* C17: every token request carries the redirect_uri and the client_id of
\* the authorization request built by startAuthFlow, and all token
\* requests carry the same ones, also those sent after a rejection.
C17_SameRedirectUriAndClient ==
  \A i \in DOMAIN requests :
    /\ authReq # NoNav
         => /\ requests[i].form.redirect_uri = authReq.redirect_uri
            /\ requests[i].form.client_id = authReq.client_id
    /\ href.kind = "auth"
         => /\ requests[i].form.redirect_uri = href.redirect_uri
            /\ requests[i].form.client_id = href.client_id
    /\ \A j \in DOMAIN requests :
         /\ requests[i].form.redirect_uri = requests[j].form.redirect_uri
         /\ requests[i].form.client_id = requests[j].form.client_id

\* C17 witness: a token request was rejected by the endpoint, a second
\* authorization request was followed and its code is being exchanged.
C17_Witness ==
  /\ page = "callback"
  /\ cb.origin = "redirect"
  /\ Len(requests) = 2
  /\ requests[1].outcome = "failed"
  /\ requests[2].load = cb.load
  /\ authReq.code_challenge = sha256(Verifier(2))

\* the answer of the exchange is a well-formed grant: 2xx, a JSON object
\* with an access_token
WellFormedGrant(response) ==
  /\ IsGrant(response)
  /\ response.body.access_token # Undefined

\* C18: an ended exchange is in exactly one of two outcomes: after a
\* well-formed grant the tokens are in sessionStorage, no error is shown
\* and the navigation to '/' is scheduled; after anything else (missing
\* verifier, non-2xx, malformed body, transport failure) the error is set
\* and no navigation is scheduled; exchanging is false in both.
C18_ExactlyOneOutcome ==
  ExchangeEnded
    => /\ ~cb.exchanging
       /\ IF WellFormedGrant(cb.response)
          THEN /\ cb.error = NoError
               /\ getItem(storage, "access_token")
                    = cb.response.body.access_token
               /\ getItem(storage, "tokens")
                    = JSONstringify(cb.response.body)
               /\ cb.timer
          ELSE /\ cb.error # NoError
               /\ ~cb.timer

\* the unreserved characters of RFC 3986: A-Z a-z 0-9 - . _ ~
Unreserved ==
  { "A", "B", "C", "D", "E", "F", "G", "H", "I", "J", "K", "L", "M",
    "N", "O", "P", "Q", "R", "S", "T", "U", "V", "W", "X", "Y", "Z",
    "a", "b", "c", "d", "e", "f", "g", "h", "i", "j", "k", "l", "m",
    "n", "o", "p", "q", "r", "s", "t", "u", "v", "w", "x", "y", "z",
    "0", "1", "2", "3", "4", "5", "6", "7", "8", "9", "-", ".", "_",
    "~" }

\* C12: a string returned by generateRandomString(length), for length 128
\* as for any other, has exactly length characters, each an unreserved
\* character, the one at the place of byte v being the symbol at index
\* v mod 66 of the 66 symbols.
C12_GeneratedString ==
  gen.pc = "returned"
    => /\ Cardinality(Unreserved) = 66
       /\ Len(gen.result) = gen.length
       /\ \A i \in 1..Len(gen.result) :
            /\ gen.result[i] \in Unreserved
            /\ gen.result[i] = Charset[(gen.randomValues[i] % 66) + 1]

\* C12 witness: a verifier of 128 characters was returned whose first
\* byte was 255 and whose second byte was 66.
C12_Witness ==
  /\ gen.pc = "returned"
  /\ gen.length = VerifierLength
  /\ Len(gen.result) = 128
  /\ gen.randomValues[1] = 255
  /\ gen.randomValues[2] = 66
  /\ gen.result[2] = "A"


\* the alphabet of base64url (RFC 4648 section 5)
Base64UrlAlphabet ==
  << "A", "B", "C", "D", "E", "F", "G", "H", "I", "J", "K", "L", "M",
     "N", "O", "P", "Q", "R", "S", "T", "U", "V", "W", "X", "Y", "Z",
     "a", "b", "c", "d", "e", "f", "g", "h", "i", "j", "k", "l", "m",
     "n", "o", "p", "q", "r", "s", "t", "u", "v", "w", "x", "y", "z",
     "0", "1", "2", "3", "4", "5", "6", "7", "8", "9", "-", "_" >>

\* bit j (1 is the first) of a byte array read as one string of bits,
\* continued with zeros
BitAt(bytes, j) ==
  IF j > 8 * Len(bytes) THEN 0
  ELSE (bytes[((j - 1) \div 8) + 1] \div 2^(7 - ((j - 1) % 8))) % 2

\* base64url without padding, read off the bits six at a time (RFC 4648)
Base64UrlOf(bytes) ==
  [g \in 1..((8 * Len(bytes) + 5) \div 6) |->
     Base64UrlAlphabet[
       32 * BitAt(bytes, 6 * g - 5) + 16 * BitAt(bytes, 6 * g - 4)
         + 8 * BitAt(bytes, 6 * g - 3) + 4 * BitAt(bytes, 6 * g - 2)
         + 2 * BitAt(bytes, 6 * g - 1) + BitAt(bytes, 6 * g) + 1]]

RECURSIVE StringOf(_)
\* the string of a sequence of characters
StringOf(chars) ==
  IF chars = << >> THEN "" ELSE chars[1] \o StringOf(Tail(chars))

\* C13: the string returned by sha256(verifier) is the base64url encoding
\* without padding of the 32 bytes of the SHA-256 digest of the verifier's
\* bytes: 43 characters, none of them '+', '/' or '='; for the verifier of
\* RFC 7636 appendix B it is E9Melhoa2OwvFrEMTJguCHaoeK1t8URWbuGJSstw-cM.
C13_ChallengeIsBase64UrlOfDigest ==
  enc.pc = "returned"
    => /\ Len(enc.hash) = 32
       /\ enc.result = Base64UrlOf(enc.hash)
       /\ Len(enc.result) = 43
       /\ \A i \in 1..Len(enc.result) : enc.result[i] \notin {"+", "/", "="}
       /\ enc.plain = TestVerifier
            => StringOf(enc.result)
                 = "E9Melhoa2OwvFrEMTJguCHaoeK1t8URWbuGJSstw-cM"
       /\ enc.plain = << >>
            => StringOf(enc.result)
                 = "47DEQpj8HBSa-_TImW-5JCeuQeRkm5NMpJWZG3hSuFU"

\* C13 witness: sha256 has returned for the verifier of RFC 7636, whose
\* base64 digest has a '+'.
C13_Witness ==
  /\ enc.pc = "returned"
  /\ enc.plain = TestVerifier
  /\ \E i \in 1..Len(enc.result) : enc.result[i] = "-"
  /\ \E i \in 1..Len(btoa(enc.hash)) : btoa(enc.hash)[i] = "+"


\* the last jwt invocation has returned and was not a sign-in
JwtReturned ==
  na.pc = "ready" /\ na.last.kind = "jwt" /\ ~na.last.initial

\* the refresh request failed: network error, unparseable body or non-OK
\* status
RefreshFailed(response) ==
  \/ ~response.transport
  \/ response.body.kind = "text"
  \/ ~response.ok

C20_RefreshFailureKeepsToken ==
  /\ (JwtReturned /\ na.last.fetches = 1 /\ RefreshFailed(na.last.response))
       => /\ ~na.last.refreshed.threw
          /\ ~na.last.threw
          /\ na.last.refreshed.value.error = "RefreshAccessTokenError"
          /\ \A f \in {"accessToken", "refreshToken", "accessTokenExpires",
                       "idToken", "user"} :
               na.last.refreshed.value[f] = na.last.input[f]
          /\ na.token = na.last.refreshed.value
  /\ (na.pc # "idle" /\ na.session.checked)
       => na.session.error = na.session.of.error

\* C20 witness: the refresh request of a signed-in session was refused
\* with a JSON error body, and the session was checked afterwards.
C20_Witness ==
  /\ JwtReturned
  /\ na.last.fetches = 1
  /\ na.last.response.transport
  /\ ~na.last.response.ok
  /\ na.last.response.body.kind = "object"
  /\ na.last.input.accessToken = "at1"
  /\ na.last.input.error = Undefined
  /\ na.session.checked
  /\ na.session.of = na.token
  /\ na.session.error = "RefreshAccessTokenError"

\* the refresh request was answered 2xx with a JSON object
RefreshSucceeded(response) ==
  /\ response.transport
  /\ response.ok
  /\ response.body.kind = "object"

\* C22: a refresh answered 2xx with a JSON object yields a token whose
\* accessToken is the answer's access_token, whose accessTokenExpires is
\* the time of the return plus expires_in * 1000 (NaN without expires_in),
\* whose refreshToken is the answer's refresh_token or, without one, the
\* previous refreshToken; idToken, user and error are those of the input.
C22_RefreshedTokenFields ==
  [][(na.pc = "refreshing" /\ na'.pc = "ready"
        /\ RefreshSucceeded(na'.last.response))
       => LET body == na'.last.response.body
              out == na'.last.refreshed IN
            /\ ~out.threw
            /\ na'.token = out.value
            /\ out.value.accessToken = body.access_token
            /\ out.value.accessTokenExpires
                 = IF body.expires_in.t = "number"
                   THEN Num(na.now + body.expires_in.v * 1000)
                   ELSE NaN
            /\ out.value.refreshToken
                 = IF body.refresh_token # Undefined
                   THEN body.refresh_token
                   ELSE na.token.refreshToken
            /\ \A f \in {"idToken", "user", "error"} :
                 out.value[f] = na.token[f]]_vars

\* C22 witness: a refresh at 1500 ms was answered with a new access token
\* that lives one second and with no refresh token; the token keeps the
\* refresh token of the sign-in.
C22_Witness ==
  /\ JwtReturned
  /\ na.last.fetches = 1
  /\ RefreshSucceeded(na.last.response)
  /\ na.last.response.body.refresh_token = Undefined
  /\ na.token.accessToken = "at2"
  /\ na.token.refreshToken = "rt1"
  /\ na.token.accessTokenExpires = Num(2500)
  /\ na.token.idToken = "id1"

\* C27: after a jwt invocation that refreshed, token.error is
\* 'RefreshAccessTokenError' exactly when that refresh failed: a refresh
\* that succeeds after a failed one leaves no error in the token, nor in
\* a session read from it.
C27_ErrorOnlyAfterFailedRefresh ==
  /\ (JwtReturned /\ na.last.fetches = 1)
       => (na.token.error = RefreshErrorValue
             <=> ~RefreshSucceeded(na.last.response))
  /\ (JwtReturned /\ na.last.fetches = 1 /\ na.session.checked
        /\ na.session.of = na.token)
       => (na.session.error = RefreshErrorValue
             <=> ~RefreshSucceeded(na.last.response))

\* C23: the callback page renders 'Authentication Successful!' only when
\* an exchange of this load was answered with a grant and the tokens are
\* in sessionStorage; so also before the effect has run.
C23_SuccessViewOnlyAfterExchange ==
  (page = "callback" /\ CallbackView(cb) = "success")
    => /\ cb.pc = "done"
       /\ IsGrant(cb.response)
       /\ Truthy(getItem(storage, "tokens"))
       /\ Truthy(getItem(storage, "access_token"))

\* C25: a token request is sent by a load of the callback page only when
\* the state parameter of its URL is present and equals the state of the
\* authorization request that startAuthFlow sent.
C25_ExchangeOnlyForSentState ==
  (page = "callback" /\ RequestsOfLoad(cb.load) # {})
    => /\ authReq.kind = "auth"
       /\ cb.state # Null
       /\ cb.state = authReq.state

\* C21: getUserInfo and introspectToken invoked without an access_token
\* entry, refreshAccessToken and revokeToken invoked without a
\* refresh_token entry, set their 'No ... token found' error, send no
\* request, leave sessionStorage as it is and end with loading false; a
\* request of these handlers is only sent with the entry present.
C21_NoTokenNoRequest ==
  [][\A h \in TokenHandlers :
       /\ (HandlerStart(h) /\ ~Truthy(getItem(storage, EntryReadBy(h))))
            => /\ home'.error = ErrorMessage(MissingTokenMessage(h))
               /\ home'.op = "none"
               /\ ~home'.loading
               /\ storage' = storage
       /\ (page = "home" /\ page' = "home" /\ home.op = "none"
             /\ home'.op = h)
            => Truthy(getItem(storage, EntryReadBy(h)))]_vars

\* C21 witness: on a home page that shows tokens granted without a
\* refresh token, the refresh or the revocation has just ended with 'No
\* refresh token found.'
C21_Witness ==
  /\ page = "home"
  /\ home.tokens # JsonNull
  /\ home.error = ErrorMessage(NoRefreshTokenMessage)
  /\ home.op = "none"
  /\ ~home.loading
  /\ getItem(storage, "refresh_token") = Null
  /\ Truthy(getItem(storage, "access_token"))

\* C24: whenever sessionStorage holds a 'tokens' JSON, the access token
\* inside it is the 'access_token' entry and the refresh token inside it
\* is the 'refresh_token' entry, after any exchanges and refreshes.
C24_TokensJsonMatchesEntries ==
  Truthy(getItem(storage, "tokens"))
    => LET obj == JSONparse(getItem(storage, "tokens")) IN
         \A k \in {"access_token", "refresh_token"} :
           obj[k] # Undefined => getItem(storage, k) = obj[k]

\* C28: a logout() with an id_token in sessionStorage requests the
\* end-session URL with that id_token as id_token_hint, also after a
\* refresh replaced the tokens state, and sessionStorage is empty when
\* the navigation is requested.
C28_LogoutHintsStoredIdToken ==
  [][(LogoutStep
        /\ getItem(storage, "id_token") \notin {Null, "undefined"})
       => /\ href'.id_token_hint = getItem(storage, "id_token")
          /\ storage' = EmptyStorage]_vars

\* C29: a refreshAccessToken or revokeToken of the home page whose request
\* is rejected by fetch or answered non-2xx leaves sessionStorage and the
\* tokens state as they were, sets the error and ends with loading
\* false; a step that ends revokeToken and changes sessionStorage is the
\* one taken on a 2xx answer of the revocation endpoint.
C29_FailedRequestKeepsTokens ==
  [][/\ \A answer \in RevocationAnswers \ {"ok"} :
          revokeTokenAnswered(answer)
            => /\ storage' = storage
               /\ home'.tokens = home.tokens
               /\ home'.error # NoError
               /\ ~home'.loading
     /\ \A response \in TokenRefreshResponses :
          (refreshAccessTokenHomeAnswered(response)
             /\ RefreshRequestFailed(response))
            => /\ storage' = storage
               /\ home'.tokens = home.tokens
               /\ home'.error # NoError
               /\ ~home'.loading
     /\ (page = "home" /\ page' = "home" /\ home.op = "revoke"
           /\ home'.op = "none" /\ storage' # storage)
          => /\ revokeTokenAnswered("ok")
             /\ storage' = EmptyStorage]_vars

\* C29 witness: with tokens shown and stored, a refresh has just ended
\* with 'Token refresh failed', the tokens being where they were.
C29_Witness ==
  /\ page = "home"
  /\ home.op = "none"
  /\ ~home.loading
  /\ home.error = ErrorMessage(RefreshFailedMessage)
  /\ home.tokens # JsonNull
  /\ Truthy(getItem(storage, "refresh_token"))
  /\ Truthy(getItem(storage, "tokens"))

\* C26: of the requests of a session that are in the jwt callback at the
\* same time with the same expired token, at most one sends a refresh
\* request for a given refresh token.
C26_OneRefreshPerRefreshToken ==
  cj.pc = "serving"
    => \A i, j \in DOMAIN cj.sent :
         i # j => cj.sent[i] # cj.sent[j]

\* the characters of str after its last '/'
AfterLastSlash(str) ==
  LET slashes == { i \in 1..Len(str) : str[i] = "/" }
      last == IF slashes = {} THEN 0
              ELSE CHOOSE i \in slashes : \A j \in slashes : j <= i
  IN SubSeq(str, last + 1, Len(str))

\* str without its leading spaces
TrimLeft(str) ==
  LET others == { i \in 1..Len(str) : str[i] # " " }
      first == IF others = {} THEN Len(str) + 1
               ELSE CHOOSE i \in others : \A j \in others : i <= j
  IN SubSeq(str, first, Len(str))

\* the names, in lower case, of the attributes that follow the cookie
\* pair of a Set-Cookie header
AttributeNames(cookie) ==
  LET pieces == split(cookie, ";") IN
    { LET name == split(TrimLeft(pieces[k]), "=")[1] IN
        [i \in 1..Len(name) |-> FoldCase(name[i])] :
      k \in 2..Len(pieces) }

\* C30: the proxy-auth GET answers 200 with the uid exactly when the
\* upstream Location contains '/interaction/' and has characters after
\* its last '/', the uid being those characters; on anything else (no
\* Location, no '/interaction/', a trailing '/', fetch throwing) it
\* answers 500 with an error body.  Only the 200 answer has a Set-Cookie
\* header, and that header has no Domain and no Secure attribute.
C30_ProxyAnswer ==
  px.pc = "answered"
    => LET up == px.upstream
           r == px.response
           found == /\ ~up.threw
                    /\ up.location # Absent
                    /\ includes(up.location, InteractionPath)
                    /\ AfterLastSlash(up.location) # << >>
       IN IF found
          THEN /\ r.status = 200
               /\ r.uid = AfterLastSlash(up.location)
               /\ r.error = Undefined
               /\ (r.setCookie # Absent
                     <=> up.setCookie \notin {Absent, << >>})
               /\ r.setCookie # Absent
                    => AttributeNames(r.setCookie)
                         \cap { << "d", "o", "m", "a", "i", "n" >>,
                                << "s", "e", "c", "u", "r", "e" >> } = {}
          ELSE /\ r.status = 500
               /\ r.uid = Absent
               /\ r.error # Undefined
               /\ r.setCookie = Absent

\* C30 witness: the upstream redirects to http://h/interaction/u1 and sets
\* 's=1; Domain=h.io; Secure'; the answer is 200 with uid u1 and the
\* cookie without the two attributes.
C30_Witness ==
  /\ px.pc = "answered"
  /\ ~px.upstream.threw
  /\ px.upstream.location
       = << "h", "t", "t", "p", ":", "/", "/", "h", "/", "i", "n", "t",
          "e", "r", "a", "c", "t", "i", "o", "n", "/", "u", "1" >>
  /\ px.upstream.setCookie
       = << "s", "=", "1", ";", " ", "D", "o", "m", "a", "i", "n", "=",
          "h", ".", "i", "o", ";", " ", "S", "e", "c", "u", "r", "e" >>
  /\ px.response.status = 200
  /\ px.response.uid = << "u", "1" >>
  /\ px.response.setCookie = << "s", "=", "1", ";", " ", " " >>

====
